---- MODULE Spec2Model ----
(***************************************************************************)
(* Form Analysis Engine of FitPlanner: the pose-driven analyzer            *)
(* (RealFormAnalyzer), the pose source (PoseDetectionService) and the      *)
(* metadata-driven analyzer (FormAnalyzer).                                *)
(*                                                                         *)
(* Numbers.  Pixel coordinates are integers.  Scores and confidences are   *)
(* hundredths.  Times are ticks, TicksPerFrame ticks to one sampling       *)
(* interval of 1/30 s.  The overall confidence is a fraction num/den or    *)
(* NaN, as IEEE arithmetic gives for 0/0.                                  *)
(***************************************************************************)
EXTENDS Integers, Sequences, FiniteSets, TLC

\* ---------------------------------------------------------------------
\* Bounds
\* ---------------------------------------------------------------------
\* longest video, in ticks
MaxDuration == 4

\* ---------------------------------------------------------------------
\* Program constants
\* ---------------------------------------------------------------------
\* one sampling interval (1/fps, fps = 30) in ticks
TicksPerFrame == 2

\* ---------------------------------------------------------------------
\* Keypoints and poses (PoseKeypoint, Pose, PoseAnalysisResult)
\* ---------------------------------------------------------------------
Kp(n, px, py, s) == [name |-> n, x |-> px, y |-> py, score |-> s]

\* the value of a lookup that finds nothing (undefined)
NoKp == [name |-> "undefined", x |-> 0, y |-> 0, score |-> 0]

\* a pose score that is absent (score?: number)
NoScore == -1

\* standing upright, every leg and trunk joint visible, no elbows
PoseStanding ==
  [score |-> 90,
   keypoints |-> << Kp("left_shoulder", 320, 100, 90), Kp("right_shoulder", 360, 100, 90),
                    Kp("left_hip", 320, 300, 90),      Kp("right_hip", 360, 300, 90),
                    Kp("left_knee", 320, 450, 90),     Kp("right_knee", 360, 450, 90),
                    Kp("left_ankle", 320, 600, 90),    Kp("right_ankle", 360, 600, 90) >>]

\* bottom of a squat, left knee 60 px off the left ankle
PoseValgus ==
  [score |-> 80,
   keypoints |-> << Kp("left_shoulder", 320, 250, 80), Kp("right_shoulder", 360, 250, 80),
                    Kp("left_hip", 320, 440, 80),      Kp("right_hip", 360, 440, 80),
                    Kp("left_knee", 380, 450, 80),     Kp("right_knee", 360, 450, 80),
                    Kp("left_ankle", 320, 600, 80),    Kp("right_ankle", 360, 600, 80) >>]

\* bottom of a squat, knees over ankles, trunk leaning forward
PoseLean ==
  [score |-> 80,
   keypoints |-> << Kp("left_shoulder", 200, 300, 80), Kp("right_shoulder", 240, 300, 80),
                    Kp("left_hip", 320, 440, 80),      Kp("right_hip", 360, 440, 80),
                    Kp("left_knee", 320, 450, 80),     Kp("right_knee", 360, 450, 80),
                    Kp("left_ankle", 320, 600, 80),    Kp("right_ankle", 360, 600, 80) >>]

\* bottom of a squat seen badly: shoulders missing, low scores
PosePartial ==
  [score |-> 30,
   keypoints |-> << Kp("left_hip", 320, 440, 40),      Kp("right_hip", 360, 440, 40),
                    Kp("left_knee", 320, 450, 60),     Kp("right_knee", 360, 450, 60),
                    Kp("left_ankle", 320, 600, 30),    Kp("right_ankle", 360, 600, 30) >>]

\* hips above the knees and below the shoulders in image y, flat trunk,
\* elbows flared: the pose the deadlift, bench and push-up rules fire on
PoseHinge ==
  [score |-> NoScore,
   keypoints |-> << Kp("left_shoulder", 100, 400, 70), Kp("right_shoulder", 140, 400, 70),
                    Kp("left_elbow", 60, 420, 70),     Kp("right_elbow", 200, 420, 70),
                    Kp("left_hip", 320, 350, 70),      Kp("right_hip", 360, 350, 70),
                    Kp("left_knee", 320, 300, 70),     Kp("right_knee", 360, 300, 70),
                    Kp("left_ankle", 320, 600, 70),    Kp("right_ankle", 360, 600, 70) >>]

\* what the detector can return for one frame: nobody, or one body
PoseLists ==
  { <<>>, <<PoseStanding>>, <<PoseValgus>>, <<PoseLean>>, <<PosePartial>>, <<PoseHinge>> }

\* ---------------------------------------------------------------------
\* Geometry utilities
\* ---------------------------------------------------------------------
Abs(n) == IF n < 0 THEN -n ELSE n

\* pose.keypoints.find(kp => kp.name === name)
RECURSIVE FindKp(_, _, _)
FindKp(kps, n, i) ==
  IF i > Len(kps) THEN NoKp
  ELSE IF kps[i].name = n THEN kps[i]
  ELSE FindKp(kps, n, i + 1)

getKeypointByName(pose, n) == FindKp(pose.keypoints, n, 1)

Found(kp) == kp # NoKp

\* Math.abs(Math.atan2(dy, dx) * 180 / PI) > 30, on integer dx, dy:
\* atan2(0, 0) = 0; the angle is at most 30 degrees exactly when dx > 0
\* and |dy| / dx <= tan 30 = 1 / sqrt 3, that is 3 dy^2 <= dx^2
AtanDegAbove30(dy, dx) ==
  ~ ( (dx = 0 /\ dy = 0) \/ (dx > 0 /\ 3 * dy * dy <= dx * dx) )

\* calculateVerticalDeviation(upper, lower) > 30
VerticalDeviationAbove30(upper, lower) ==
  AtanDegAbove30(lower.y - upper.y, lower.x - upper.x)

\* the direction atan2 sees: atan2(0, 0) = 0 is the direction of (1, 0)
Dir(dx, dy) == IF dx = 0 /\ dy = 0 THEN <<1, 0>> ELSE <<dx, dy>>

\* calculateAngle(p1, p2, p3) < 160: the folded difference of the two
\* atan2 values is the unsigned angle between the rays p2->p1 and p2->p3;
\* it is below 160 when the rays' dot product is >= 0 or
\* |cross| / -dot > tan 20 (0.364 to three places)
AngleBelow160(p1, p2, p3) ==
  LET u == Dir(p1.x - p2.x, p1.y - p2.y)
      v == Dir(p3.x - p2.x, p3.y - p2.y)
      dot == u[1] * v[1] + u[2] * v[2]
      cross == u[1] * v[2] - u[2] * v[1]
  IN  dot >= 0 \/ 1000 * Abs(cross) > 364 * (-dot)

\* calculateDistance(p1, p2) squared
DistanceSq(p1, p2) ==
  (p2.x - p1.x) * (p2.x - p1.x) + (p2.y - p1.y) * (p2.y - p1.y)

\* ---------------------------------------------------------------------
\* Exercises (Exercise, ExerciseVariation)
\* ---------------------------------------------------------------------
\* nameIncludes is the set of rule fragments that name.toLowerCase()
\* contains
Variation(n, r) == [name |-> n, reason |-> r]

GobletSquat == Variation("Goblet Squat", "Easier loading, teaches upright posture")
BoxSquat == Variation("Box Squat", "Reduced range of motion, builds confidence")
FrontSquat == Variation("Front Squat", "Increased quad emphasis, core demand")
PausedSquat == Variation("Paused Squat", "Builds strength out of the hole")
ReducedROM == Variation("Reduced ROM variation", "Work within pain-free range while improving mobility")
LighterLoad == Variation("Lighter load variation", "Build strength foundation with submaximal loads")

Exercise(i, n, inc, c, reg, prog) ==
  [id |-> i, name |-> n, nameIncludes |-> inc, cues |-> c,
   regressions |-> reg, progressions |-> prog]

\* the absent exercise argument of analyzeForm (exercise?: Exercise)
NoExercise == Exercise("undefined", "", {}, <<>>, <<>>, <<>>)

\* the squat of the plan generator's library, and exercises a caller
\* may build with shorter variation lists
Exercises ==
  { Exercise("squat", "Barbell Back Squat", {"squat"}, <<"Brace core before descent">>,
             <<GobletSquat, BoxSquat>>, <<FrontSquat, PausedSquat>>),
    Exercise("air_squat", "Air Squat", {"squat"}, <<>>, <<>>, <<FrontSquat>>),
    Exercise("split_squat", "Split Squat", {"squat"}, <<>>, <<GobletSquat>>, <<>>),
    Exercise("deadlift", "Conventional Deadlift", {"deadlift"}, <<"Hinge at hips to grip bar">>,
             <<>>, <<>>),
    Exercise("bench", "Barbell Bench Press", {"bench"}, <<"Retract scapulae and maintain">>,
             <<>>, <<>>),
    Exercise("pushup", "Push-up", {"push"}, <<>>, <<>>, <<>>),
    Exercise("lunge", "Walking Lunge", {"lunge"}, <<>>, <<>>, <<>>),
    Exercise("plank", "Front Plank", {}, <<"Elbows under shoulders">>, <<>>, <<>>),
    Exercise("complex", "Squat Bench Deadlift Complex", {"squat", "bench", "deadlift"}, <<>>,
             <<>>, <<>>) }

\* ---------------------------------------------------------------------
\* Video metadata (VideoInput)
\* ---------------------------------------------------------------------
\* frame_rate 0 stands for an absent frame_rate; lighting and
\* equipment_visible FALSE for absent or false recording conditions
Video(consent, angle, rate, light, visible, anthro, setup) ==
  [consent_confirmed |-> consent, camera_angle |-> angle, frame_rate |-> rate,
   lighting |-> light, equipment_visible |-> visible,
   anthropometrics |-> anthro, equipment_setup |-> setup]

\* no call, so no metadata
NoVideo == Video(FALSE, "", 0, FALSE, FALSE, FALSE, FALSE)

VideoInputs ==
  { Video(FALSE, "sagittal_right", 30, TRUE, TRUE, TRUE, TRUE),
    Video(TRUE, "sagittal_right", 30, TRUE, TRUE, TRUE, TRUE),
    Video(TRUE, "frontal", 24, FALSE, FALSE, TRUE, FALSE),
    Video(TRUE, "overhead", 0, FALSE, FALSE, FALSE, FALSE) }

\* camera_angle.includes(fragment)
AngleIncludes(angle, fragment) ==
  CASE fragment = "sagittal" -> angle \in {"sagittal_left", "sagittal_right"}
    [] fragment = "frontal" -> angle = "frontal"
    [] OTHER -> FALSE

\* ---------------------------------------------------------------------
\* Form errors (FormError)
\* ---------------------------------------------------------------------
FormError(i, sev, f0, f1, conf, cue, cause) ==
  [id |-> i, severity |-> sev, frames |-> <<f0, f1>>, confidence |-> conf,
   coaching_cue |-> cue, primary_cause |-> cause]

NoPoseDetected ==
  FormError("no_pose_detected", "major", 0, 0, 100,
            "Ensure full body is visible in frame with good lighting", "camera_issue")

KneeValgus(f0, f1) ==
  FormError("knee_valgus", "moderate", f0, f1, 75,
            "Push knees out to track over toes, engage glutes", "strength")

ForwardLean(f0, f1) ==
  FormError("forward_lean", "minor", f0, f1, 65,
            "Keep chest up, may indicate ankle mobility limitation", "mobility")

RoundedBack(f0, f1) ==
  FormError("rounded_back", "major", f0, f1, 80,
            "Brace harder, reduce load, work on hip hinge pattern", "setup")

ScapulaProtraction(f0, f1) ==
  FormError("scapula_protraction", "moderate", f0, f1, 70,
            "Pull shoulder blades down and together before unracking", "setup")

SaggingHips(f0, f1) ==
  FormError("sagging_hips", "moderate", f0, f1, 80,
            "Brace your core and maintain a straight line from head to heels", "strength")

KneeOverToe(f0, f1) ==
  FormError("knee_over_toe", "moderate", f0, f1, 75,
            "Keep front knee over ankle, increase stride length", "setup")

UnknownExercise ==
  FormError("unknown_exercise", "moderate", 0, 100, 90,
            "Ensure exercise is registered in system", "camera_issue")

\* ---------------------------------------------------------------------
\* Exercise rule catalog: one loop body per exercise.  A loop body
\* yields <<>> (continue, or fall off the end of the body) or the one
\* error it pushes before break.
\* ---------------------------------------------------------------------
\* avgHipY > avgKneeY - 20, the averages doubled
isBottomPosition(leftHip, rightHip, leftKnee, rightKnee) ==
  leftHip.y + rightHip.y > leftKnee.y + rightKnee.y - 40

\* kneeAnkleDistanceLeft > 50 || kneeAnkleDistanceRight > 50
KneeOffAnkle(leftKnee, rightKnee, leftAnkle, rightAnkle) ==
  Abs(leftKnee.x - leftAnkle.x) > 50 \/ Abs(rightKnee.x - rightAnkle.x) > 50

SquatFrame(result) ==
  IF Len(result.poses) = 0 THEN <<>>
  ELSE
    LET pose == result.poses[1]
        leftHip == getKeypointByName(pose, "left_hip")
        rightHip == getKeypointByName(pose, "right_hip")
        leftKnee == getKeypointByName(pose, "left_knee")
        rightKnee == getKeypointByName(pose, "right_knee")
        leftAnkle == getKeypointByName(pose, "left_ankle")
        rightAnkle == getKeypointByName(pose, "right_ankle")
        leftShoulder == getKeypointByName(pose, "left_shoulder")
        rightShoulder == getKeypointByName(pose, "right_shoulder")
    IN  IF ~Found(leftHip) \/ ~Found(rightHip) \/ ~Found(leftKnee)
           \/ ~Found(rightKnee) \/ ~Found(leftAnkle) \/ ~Found(rightAnkle)
        THEN <<>>
        ELSE IF ~isBottomPosition(leftHip, rightHip, leftKnee, rightKnee) THEN <<>>
        ELSE IF KneeOffAnkle(leftKnee, rightKnee, leftAnkle, rightAnkle)
        THEN << KneeValgus(result.frameNumber, result.frameNumber) >>
        ELSE IF Found(leftShoulder) /\ Found(rightShoulder)
                /\ ( VerticalDeviationAbove30(leftShoulder, leftHip)
                     \/ VerticalDeviationAbove30(rightShoulder, rightHip) )
        THEN << ForwardLean(result.frameNumber, result.frameNumber) >>
        ELSE <<>>

\* avgHipY < avgShoulderY && avgHipY > avgKneeY, the averages doubled
isInPullPosition(leftShoulder, rightShoulder, leftHip, rightHip, leftKnee, rightKnee) ==
  /\ leftHip.y + rightHip.y < leftShoulder.y + rightShoulder.y
  /\ leftHip.y + rightHip.y > leftKnee.y + rightKnee.y

\* spineDeviation < 0.5 where spineDeviation =
\* |avgShoulderY - avgHipY| / |leftShoulder.x - leftHip.x|; in pull
\* position the numerator is positive, so a zero denominator gives
\* Infinity, which is not below 0.5
SpineDeviationBelowHalf(leftShoulder, rightShoulder, leftHip, rightHip) ==
  LET num2 == Abs((leftShoulder.y + rightShoulder.y) - (leftHip.y + rightHip.y))
      den == Abs(leftShoulder.x - leftHip.x)
  IN  IF den = 0 THEN FALSE ELSE num2 < den

DeadliftFrame(result) ==
  IF Len(result.poses) = 0 THEN <<>>
  ELSE
    LET pose == result.poses[1]
        leftShoulder == getKeypointByName(pose, "left_shoulder")
        rightShoulder == getKeypointByName(pose, "right_shoulder")
        leftHip == getKeypointByName(pose, "left_hip")
        rightHip == getKeypointByName(pose, "right_hip")
        leftKnee == getKeypointByName(pose, "left_knee")
        rightKnee == getKeypointByName(pose, "right_knee")
    IN  IF ~Found(leftShoulder) \/ ~Found(rightShoulder) \/ ~Found(leftHip)
           \/ ~Found(rightHip) \/ ~Found(leftKnee) \/ ~Found(rightKnee)
        THEN <<>>
        ELSE IF isInPullPosition(leftShoulder, rightShoulder, leftHip, rightHip,
                                 leftKnee, rightKnee)
                /\ SpineDeviationBelowHalf(leftShoulder, rightShoulder, leftHip, rightHip)
        THEN << RoundedBack(result.frameNumber, result.frameNumber) >>
        ELSE <<>>

BenchFrame(result) ==
  IF Len(result.poses) = 0 THEN <<>>
  ELSE
    LET pose == result.poses[1]
        leftShoulder == getKeypointByName(pose, "left_shoulder")
        rightShoulder == getKeypointByName(pose, "right_shoulder")
        leftElbow == getKeypointByName(pose, "left_elbow")
        rightElbow == getKeypointByName(pose, "right_elbow")
    IN  IF ~Found(leftShoulder) \/ ~Found(rightShoulder)
           \/ ~Found(leftElbow) \/ ~Found(rightElbow)
        THEN <<>>
        \* elbowWidth > shoulderWidth * 1.5, both sides squared
        ELSE IF 4 * DistanceSq(leftElbow, rightElbow)
                  > 9 * DistanceSq(leftShoulder, rightShoulder)
        THEN << ScapulaProtraction(result.frameNumber, result.frameNumber) >>
        ELSE <<>>

PushUpFrame(result) ==
  IF Len(result.poses) = 0 THEN <<>>
  ELSE
    LET pose == result.poses[1]
        leftShoulder == getKeypointByName(pose, "left_shoulder")
        leftHip == getKeypointByName(pose, "left_hip")
        leftAnkle == getKeypointByName(pose, "left_ankle")
    IN  IF ~Found(leftShoulder) \/ ~Found(leftHip) \/ ~Found(leftAnkle) THEN <<>>
        ELSE IF AngleBelow160(leftShoulder, leftHip, leftAnkle)
        THEN << SaggingHips(result.frameNumber, result.frameNumber) >>
        ELSE <<>>

LungeFrame(result) ==
  IF Len(result.poses) = 0 THEN <<>>
  ELSE
    LET pose == result.poses[1]
        leftKnee == getKeypointByName(pose, "left_knee")
        rightKnee == getKeypointByName(pose, "right_knee")
        leftAnkle == getKeypointByName(pose, "left_ankle")
        rightAnkle == getKeypointByName(pose, "right_ankle")
    IN  IF ~Found(leftKnee) \/ ~Found(rightKnee) \/ ~Found(leftAnkle) \/ ~Found(rightAnkle)
        THEN <<>>
        ELSE IF KneeOffAnkle(leftKnee, rightKnee, leftAnkle, rightAnkle)
        THEN << KneeOverToe(result.frameNumber, result.frameNumber) >>
        ELSE <<>>

\* ---------------------------------------------------------------------
\* Frame-sequence analyzer
\* ---------------------------------------------------------------------
\* a scan that keeps going after a hit
RECURSIVE ScanLoopNoBreak(_, _, _)
ScanLoopNoBreak(outs, i, errors) ==
  IF i > Len(outs) THEN errors
  ELSE ScanLoopNoBreak(outs, i + 1, errors \o outs[i])

\* for (i = 0; i < poseResults.length; i++) { ... continue | push; break }
\* over the loop bodies' outcomes outs, from frame index i on
RECURSIVE ScanLoop(_, _, _)
ScanLoop(outs, i, errors) ==
  IF i > Len(outs) THEN errors
  ELSE IF outs[i] = <<>> THEN ScanLoop(outs, i + 1, errors)
  ELSE errors \o outs[i]

analyzeSquat(poseResults) ==
  ScanLoop([i \in 1..Len(poseResults) |-> SquatFrame(poseResults[i])], 1, <<>>)

analyzeDeadlift(poseResults) ==
  ScanLoop([i \in 1..Len(poseResults) |-> DeadliftFrame(poseResults[i])], 1, <<>>)

analyzeBenchPress(poseResults) ==
  ScanLoop([i \in 1..Len(poseResults) |-> BenchFrame(poseResults[i])], 1, <<>>)

analyzePushUp(poseResults) ==
  ScanLoop([i \in 1..Len(poseResults) |-> PushUpFrame(poseResults[i])], 1, <<>>)

analyzeLunge(poseResults) ==
  ScanLoop([i \in 1..Len(poseResults) |-> LungeFrame(poseResults[i])], 1, <<>>)

\* the rule set the else-if chain on the exercise name dispatches to
RuleSet(exercise) ==
  IF "squat" \in exercise.nameIncludes THEN "squat"
  ELSE IF "deadlift" \in exercise.nameIncludes THEN "deadlift"
  ELSE IF "bench" \in exercise.nameIncludes THEN "bench"
  ELSE IF "push" \in exercise.nameIncludes THEN "push"
  ELSE IF "lunge" \in exercise.nameIncludes THEN "lunge"
  ELSE "none"

analyzeFormFromPoses(poseResults, exercise) ==
  IF Len(poseResults) = 0 THEN << NoPoseDetected >>
  ELSE CASE RuleSet(exercise) = "squat" -> analyzeSquat(poseResults)
         [] RuleSet(exercise) = "deadlift" -> analyzeDeadlift(poseResults)
         [] RuleSet(exercise) = "bench" -> analyzeBenchPress(poseResults)
         [] RuleSet(exercise) = "push" -> analyzePushUp(poseResults)
         [] RuleSet(exercise) = "lunge" -> analyzeLunge(poseResults)
         [] OTHER -> <<>>

\* ---------------------------------------------------------------------
\* Quality and confidence assessor (pose-driven)
\* ---------------------------------------------------------------------
\* poseResults.filter(r => r.poses.length > 0).length
PosesDetected(poseResults) ==
  Cardinality({ i \in 1..Len(poseResults) : Len(poseResults[i].poses) > 0 })

\* r.poses[0]?.score || 0, in hundredths
PoseScore(r) ==
  IF Len(r.poses) = 0 THEN 0
  ELSE IF r.poses[1].score = NoScore THEN 0
  ELSE r.poses[1].score

RECURSIVE SumScores(_, _)
SumScores(poseResults, i) ==
  IF i > Len(poseResults) THEN 0
  ELSE PoseScore(poseResults[i]) + SumScores(poseResults, i + 1)

\* the mean taken over the frames that have a pose
assessVideoQualityDetectedOnly(poseResults) ==
  LET n == Len(poseResults)
      d == PosesDetected(poseResults)
      lowRate == n # 0 /\ 10 * d < 7 * n
      lowConf == d # 0 /\ 2 * SumScores(poseResults, 1) < 100 * d
  IN  (IF lowRate THEN << "low_detection_rate" >> ELSE <<>>)
      \o (IF lowConf THEN << "low_confidence" >> ELSE <<>>)

\* on an empty sequence both quotients are 0/0 = NaN and every
\* comparison with NaN is false
assessVideoQuality(poseResults) ==
  LET n == Len(poseResults)
      lowRate == n # 0 /\ 10 * PosesDetected(poseResults) < 7 * n
      lowConf == n # 0 /\ 2 * SumScores(poseResults, 1) < 100 * n
  IN  (IF lowRate THEN << "low_detection_rate" >> ELSE <<>>)
      \o (IF lowConf THEN << "low_confidence" >> ELSE <<>>)

\* a number: NaN, or the fraction num / den with den > 0
NaN == [nan |-> TRUE, num |-> 0, den |-> 1]
Frac(n, d) == [nan |-> FALSE, num |-> n, den |-> d]

\* Math.max(0.3, Math.min(1.0, c)); Math.min and Math.max return NaN
\* when an argument is NaN
Clamp(c) ==
  IF c.nan THEN NaN
  ELSE IF 10 * c.num < 3 * c.den THEN Frac(3 * c.den, 10 * c.den)
  ELSE IF c.num > c.den THEN Frac(c.den, c.den)
  ELSE c

\* (0.85 - 0.15 * flags) * (posesDetected / length), clamped
calculateConfidence(poseResults, qualityFlags) ==
  LET n == Len(poseResults)
  IN  IF n = 0 THEN Clamp(NaN)
      ELSE Clamp(Frac((85 - 15 * Len(qualityFlags)) * PosesDetected(poseResults), 100 * n))

\* ---------------------------------------------------------------------
\* Recommendation and coaching synthesizer
\* ---------------------------------------------------------------------
CountSeverity(errors, sev) ==
  Cardinality({ i \in 1..Len(errors) : errors[i].severity = sev })

HasCause(errors, cause) ==
  \E i \in 1..Len(errors) : errors[i].primary_cause = cause

\* a policy that regresses only beyond three moderate errors
determineRecommendedActionOverThree(errors) ==
  IF CountSeverity(errors, "major") > 0 THEN "regress_and_retest"
  ELSE IF CountSeverity(errors, "moderate") > 3 THEN "regress_and_retest"
  ELSE IF CountSeverity(errors, "moderate") >= 1 \/ CountSeverity(errors, "minor") >= 2
       THEN "proceed_with_cues"
  ELSE "proceed"

\* the same code in both analyzers
determineRecommendedAction(errors) ==
  IF CountSeverity(errors, "major") > 0 THEN "regress_and_retest"
  ELSE IF CountSeverity(errors, "moderate") >= 3 THEN "regress_and_retest"
  ELSE IF CountSeverity(errors, "moderate") >= 1 \/ CountSeverity(errors, "minor") >= 2
       THEN "proceed_with_cues"
  ELSE "proceed"

\* array.slice(0, k)
Slice(s, k) == SubSeq(s, 1, IF Len(s) < k THEN Len(s) ELSE k)

\* regressions is the exercise's own array (exercise.regressions || []
\* yields the array itself, an array being truthy), so each push lands
\* in the exercise; the outcome is the exercise as left behind and the
\* substitutions returned.  The same code in both analyzers, for a
\* defined exercise.
generateSubstitutions(exercise, errors) ==
  LET r0 == exercise.regressions
      r1 == IF HasCause(errors, "mobility") /\ Len(r0) < 2 THEN Append(r0, ReducedROM) ELSE r0
      r2 == IF HasCause(errors, "strength") /\ Len(r1) < 2 THEN Append(r1, LighterLoad) ELSE r1
  IN  [exercise |-> [exercise EXCEPT !.regressions = r2],
       substitutions |-> [regressions |-> Slice(r2, 2),
                          progressions |-> Slice(exercise.progressions, 2)]]

\* String(n).padStart(2, '0')
Pad2(n) == IF n < 10 THEN "0" \o ToString(n) ELSE ToString(n)

\* a rendering that takes the frame number for the seconds
TimeStrOfFrames(frame) ==
  LET minutes == frame \div 60
      seconds == frame % 60
  IN  "00:" \o Pad2(minutes) \o ":" \o Pad2(seconds)

\* `00:${minutes}:${seconds}` of Math.floor(frame / 30) seconds
TimeStr(frame) ==
  LET frameSeconds == frame \div 30
      minutes == frameSeconds \div 60
      seconds == frameSeconds % 60
  IN  "00:" \o Pad2(minutes) \o ":" \o Pad2(seconds)

Cue(t, c) == [time_s |-> t, cue |-> c]

SetupCue == Cue("00:00:05", "Check setup position and alignment")

\* errors.slice(0, 3).forEach(error => cues.push(...))
ErrorCues(errors) ==
  [i \in 1..Len(Slice(errors, 3)) |-> Cue(TimeStr(errors[i].frames[1]), errors[i].coaching_cue)]

generateTimestampedCues(errors, exercise) == << SetupCue >> \o ErrorCues(errors)

\* the camera-angle overlays, the same in both analyzers
AngleOverlays(videoInput) ==
  (IF AngleIncludes(videoInput.camera_angle, "sagittal")
   THEN << "Draw vertical plumb line at mid-foot", "Highlight knee tracking path",
           "Show spine angle relative to vertical" >>
   ELSE <<>>)
  \o (IF AngleIncludes(videoInput.camera_angle, "frontal")
      THEN << "Draw vertical centerline", "Mark shoulder and hip symmetry" >>
      ELSE <<>>)

generateVisualOverlays(errors, videoInput) == AngleOverlays(videoInput)

\* the same code in both analyzers
\* a summary that tests the moderate count before the major count
generateSummaryModerateFirst(errors, action) ==
  LET major == CountSeverity(errors, "major")
      moderate == CountSeverity(errors, "moderate")
      minor == CountSeverity(errors, "minor")
  IN  IF Len(errors) = 0 THEN "Excellent form! Continue with current progression."
      ELSE IF moderate >= 2
      THEN "Form needs improvement (" \o ToString(moderate) \o " moderate, " \o ToString(minor)
           \o " minor issues). Apply coaching cues and consider regression."
      ELSE IF major > 0
      THEN "Unsafe form detected (" \o ToString(major)
           \o " major issues). Regress to lighter load or modified variation immediately."
      ELSE "Form acceptable with cues (" \o ToString(moderate) \o " moderate, "
           \o ToString(minor) \o " minor issues). Focus on primary corrections."

generateSummary(errors, action) ==
  LET major == CountSeverity(errors, "major")
      moderate == CountSeverity(errors, "moderate")
      minor == CountSeverity(errors, "minor")
  IN  IF Len(errors) = 0 THEN "Excellent form! Continue with current progression."
      ELSE IF major > 0
      THEN "Unsafe form detected (" \o ToString(major)
           \o " major issues). Regress to lighter load or modified variation immediately."
      ELSE IF moderate >= 2
      THEN "Form needs improvement (" \o ToString(moderate) \o " moderate, " \o ToString(minor)
           \o " minor issues). Apply coaching cues and consider regression."
      ELSE "Form acceptable with cues (" \o ToString(moderate) \o " moderate, "
           \o ToString(minor) \o " minor issues). Focus on primary corrections."

Landmark(kp, frame) ==
  [landmark |-> kp.name, frame |-> frame, x |-> kp.x, y |-> kp.y, confidence |-> kp.score]

\* SelectSeq with the keypoint test written out: (kp.score || 0) > 0.5
RECURSIVE LandmarksFrom(_, _, _)
LandmarksFrom(kps, frame, i) ==
  IF i > Len(kps) THEN <<>>
  ELSE (IF kps[i].score > 50 THEN << Landmark(kps[i], frame) >> ELSE <<>>)
       \o LandmarksFrom(kps, frame, i + 1)

\* the outcome of a call that can throw
Returns(v) == [throws |-> FALSE, value |-> v]
Throws == [throws |-> TRUE, value |-> <<>>]

\* midFrameResult.poses[0] is undefined when the middle frame has no
\* pose, and reading pose.keypoints then throws a TypeError
extractKeyLandmarks(poseResults) ==
  IF Len(poseResults) = 0 THEN Returns(<<>>)
  ELSE IF Len(poseResults[1].poses) = 0 THEN Returns(<<>>)
  ELSE LET midFrameResult == poseResults[(Len(poseResults) \div 2) + 1]
       IN  IF Len(midFrameResult.poses) = 0 THEN Throws
           ELSE Returns(LandmarksFrom(midFrameResult.poses[1].keypoints,
                                      midFrameResult.frameNumber, 1))

\* the metrics reported, by name and expected range, or undefined.  The
\* measured angles (a maximum over frames of 180 - calculateAngle) are
\* not part of the model.  The metadata-driven analyzer reports the same
\* two metrics with fixed readings.
Undefined == [defined |-> FALSE, metrics |-> <<>>]

SquatROM ==
  [defined |-> TRUE,
   metrics |-> << [metric_name |-> "knee_flexion_peak", expected_range |-> <<90, 135>>],
                  [metric_name |-> "hip_flexion_peak", expected_range |-> <<90, 120>>] >>]

assessROM(poseResults, exercise) ==
  IF Len(poseResults) = 0 THEN Undefined
  ELSE IF "squat" \in exercise.nameIncludes THEN SquatROM
  ELSE Undefined

HasJoints(r, names) ==
  /\ Len(r.poses) > 0
  /\ \A n \in names : Found(getKeypointByName(r.poses[1], n))

\* one symmetry metric when some frame shows the left leg and some
\* frame the right leg, else none; the averaged angles are not part of
\* the model
assessSymmetry(poseResults) ==
  IF /\ \E i \in 1..Len(poseResults) :
          HasJoints(poseResults[i], {"left_hip", "left_knee", "left_ankle"})
     /\ \E i \in 1..Len(poseResults) :
          HasJoints(poseResults[i], {"right_hip", "right_knee", "right_ankle"})
  THEN << "knee_flexion_symmetry" >>
  ELSE <<>>

\* ---------------------------------------------------------------------
\* Report assembler (pose-driven): the statements of
\* analyzeVideoWithPoses after detectPosesInVideo has returned
\* ---------------------------------------------------------------------
\* the outcome is a throw (from extractKeyLandmarks, before the
\* substitutions are generated) or the report and the exercise as left
\* behind
AssembleReport(poseResults, videoInput, exercise) ==
  LET errors == analyzeFormFromPoses(poseResults, exercise)
      qualityFlags == assessVideoQuality(poseResults)
      confidence == calculateConfidence(poseResults, qualityFlags)
      recommendedAction == determineRecommendedAction(errors)
      landmarks == extractKeyLandmarks(poseResults)
      subs == generateSubstitutions(exercise, errors)
  IN  IF landmarks.throws THEN [throws |-> TRUE, exercise |-> exercise, analysis |-> <<>>]
      ELSE [throws |-> FALSE,
            exercise |-> subs.exercise,
            analysis |-> <<
              [form_analysis_summary |-> generateSummary(errors, recommendedAction),
               overall_confidence |-> confidence,
               key_landmarks_detected |-> landmarks.value,
               errors |-> errors,
               range_of_motion_metrics |-> assessROM(poseResults, exercise),
               symmetry_metrics |-> assessSymmetry(poseResults),
               recommended_action |-> recommendedAction,
               exercise_substitutions |-> subs.substitutions,
               visual_overlay_instructions |-> generateVisualOverlays(errors, videoInput),
               video_quality_flags |-> qualityFlags,
               timestamped_coaching_queue |-> generateTimestampedCues(errors, exercise)] >>]

\* ---------------------------------------------------------------------
\* Metadata-driven analyzer (FormAnalyzer)
\* ---------------------------------------------------------------------
FormAnalyzer_assessVideoQuality(video) ==
  (IF ~video.lighting THEN << "lighting_low" >> ELSE <<>>)
  \o (IF video.camera_angle # ""
         /\ video.camera_angle \notin {"sagittal_left", "sagittal_right", "frontal"}
      THEN << "suboptimal_angle" >> ELSE <<>>)
  \o (IF video.frame_rate < 30 THEN << "low_framerate" >> ELSE <<>>)
  \o (IF ~video.equipment_visible THEN << "occluded_joints" >> ELSE <<>>)
  \o (IF video.camera_angle \in {"sagittal_left", "sagittal_right", "frontal", "overhead"}
      THEN << "single_angle" >> ELSE <<>>)

\* 0.85 - 0.1 * flags - 0.1 (no anthropometrics) - 0.05 (no equipment
\* setup), clamped
FormAnalyzer_calculateConfidence(video, qualityFlags) ==
  Clamp(Frac(85 - 10 * Len(qualityFlags)
                - (IF video.anthropometrics THEN 0 ELSE 10)
                - (IF video.equipment_setup THEN 0 ELSE 5), 100))

detectFormErrors(video, exercise) ==
  IF exercise = NoExercise THEN << UnknownExercise >>
  ELSE (IF "squat" \in exercise.nameIncludes
        THEN << KneeValgus(45, 75), ForwardLean(50, 80) >> ELSE <<>>)
       \o (IF "deadlift" \in exercise.nameIncludes THEN << RoundedBack(30, 60) >> ELSE <<>>)
       \o (IF "bench" \in exercise.nameIncludes THEN << ScapulaProtraction(10, 90) >> ELSE <<>>)

GenericSubstitutions ==
  [regressions |-> << Variation("Bodyweight variation", "Learn pattern without load"),
                      Variation("Assisted variation", "Reduce difficulty") >>,
   progressions |-> << Variation("Loaded variation", "Add resistance"),
                       Variation("Advanced variation", "Increase difficulty") >>]

FormAnalyzer_generateSubstitutions(exercise, errors) ==
  IF exercise = NoExercise
  THEN [exercise |-> exercise, substitutions |-> GenericSubstitutions]
  ELSE generateSubstitutions(exercise, errors)

FormAnalyzer_generateTimestampedCues(errors, exercise) ==
  << SetupCue >> \o ErrorCues(errors)
  \o (IF Len(exercise.cues) > 0 THEN << Cue("00:00:15", exercise.cues[1]) >> ELSE <<>>)

\* errors.forEach(error => ...) over errors from index i on
RECURSIVE ErrorOverlays(_, _)
ErrorOverlays(errors, i) ==
  IF i > Len(errors) THEN <<>>
  ELSE (IF errors[i].id = "knee_valgus"
        THEN << "Highlight knee position relative to toe line" >> ELSE <<>>)
       \o (IF errors[i].id = "rounded_back"
           THEN << "Trace spine curvature, highlight excessive flexion" >> ELSE <<>>)
       \o ErrorOverlays(errors, i + 1)

FormAnalyzer_generateVisualOverlays(errors, video) ==
  AngleOverlays(video) \o ErrorOverlays(errors, 1)

detectLandmarks ==
  << [landmark |-> "left_knee", frame |-> 45, x |-> 320, y |-> 480, confidence |-> 92],
     [landmark |-> "right_knee", frame |-> 45, x |-> 340, y |-> 485, confidence |-> 89],
     [landmark |-> "left_hip", frame |-> 45, x |-> 310, y |-> 360, confidence |-> 87],
     [landmark |-> "right_hip", frame |-> 45, x |-> 350, y |-> 365, confidence |-> 85] >>

FormAnalyzer_assessROM(video, exercise) ==
  IF exercise = NoExercise THEN Undefined
  ELSE IF "squat" \in exercise.nameIncludes THEN SquatROM
  ELSE Undefined

\* the statements of analyzeForm after the consent check
FormAnalyzerReport(video, exercise) ==
  LET qualityFlags == FormAnalyzer_assessVideoQuality(video)
      confidence == FormAnalyzer_calculateConfidence(video, qualityFlags)
      errors == detectFormErrors(video, exercise)
      recommendedAction == determineRecommendedAction(errors)
      subs == FormAnalyzer_generateSubstitutions(exercise, errors)
  IN  [throws |-> FALSE,
       exercise |-> subs.exercise,
       analysis |-> <<
         [form_analysis_summary |-> generateSummary(errors, recommendedAction),
          overall_confidence |-> confidence,
          key_landmarks_detected |-> detectLandmarks,
          errors |-> errors,
          range_of_motion_metrics |-> FormAnalyzer_assessROM(video, exercise),
          symmetry_metrics |-> << "knee_flexion_symmetry" >>,
          recommended_action |-> recommendedAction,
          exercise_substitutions |-> subs.substitutions,
          visual_overlay_instructions |-> FormAnalyzer_generateVisualOverlays(errors, video),
          video_quality_flags |-> qualityFlags,
          timestamped_coaching_queue |-> FormAnalyzer_generateTimestampedCues(errors, exercise)] >>]

\* ---------------------------------------------------------------------
\* State
\* ---------------------------------------------------------------------
VARIABLES
  pc,            \* where the running call is: "idle", "initialize", "detect",
                 \* "loop", "seeking", "estimate", "assemble", "returned", "thrown"
  analyzer,      \* the analyzer of the current call: "real", "meta" or "none"
  videoInput,    \* the call's VideoInput
  exercise,      \* the Exercise object passed to the call, as it is now
  duration,      \* videoElement.duration, in ticks
  time,          \* the loop variable time, in ticks
  frameNumber,   \* the loop's frameNumber
  results,       \* the PoseAnalysisResult[] built by detectPosesInVideo
  detector,      \* poseDetectionService.detector: "null" or "detector"
  initialized,   \* poseDetectionService.initialized
  analysis,      \* <<report>> once the call has returned, else <<>>
  thrown,        \* the error the call threw, or "none"
  exerciseAtEntry, \* history: the exercise as it was passed in
  initCalls,     \* history: initialize() calls made by the current call
  seeks,         \* history: seeks made by the current call
  draws,         \* history: frames drawn (read) by the current call
  estimates,     \* history: estimatePoses calls made by the current call
  failedFrames,  \* history: frame numbers whose estimation threw
  prev,          \* history: <<the previous call>> while the current call
                 \* repeats it (same analyzer, metadata, exercise, frames so far)
  detectorsCreated, \* history: detectors created since the last dispose
  initPc,        \* for each other caller of the pose service, where its
                 \* initialize() call stands: "idle" or "awaiting"
  frameCall,     \* the outcome of the last detectPosesInFrame call
  errorsIn,      \* the error list handed to the coaching synthesizer
  synthesis,     \* <<what the synthesizer made of errorsIn>>, or <<>>
  framesIn,      \* the frame sequence handed to the rule sets
  ruleOutput,    \* <<what the rule sets and the quality assessor made of
                 \* framesIn>>, or <<>>
  view,          \* App: the view shown
  plan,          \* App: a plan has been generated
  sessions,      \* App: the sessions list, newest first
  saving,        \* SessionTracker: the saving flag of the mounted tracker
  duration_min,  \* SessionTracker: sessionData.duration_min of the mounted tracker
  timers,        \* the pending 500 ms timers of handleSave, oldest first
  delivered,     \* the ids of the sessions passed to handleSessionSaved
  videoFile,     \* VideoAnalysis: the file loaded, 0 for null, else its number
  consent_confirmed, \* VideoAnalysis: videoInput.consent_confirmed
  exercise_id,   \* VideoAnalysis: videoInput.exercise_id, "" when none is chosen
  shown,         \* VideoAnalysis: <<the analysis displayed>>, or <<>> for null
  analyzing,     \* VideoAnalysis: the analyzing flag
  error,         \* VideoAnalysis: the error message, "null" for none
  progress,      \* VideoAnalysis: the progress percentage
  run            \* the running handleAnalyze: where it is and its locals

vars == << pc, analyzer, videoInput, exercise, duration, time, frameNumber, results,
           detector, initialized, analysis, thrown, exerciseAtEntry, initCalls, seeks,
           draws, estimates, failedFrames, prev, detectorsCreated, initPc, frameCall,
           errorsIn, synthesis, framesIn, ruleOutput,
           view, plan, sessions, saving, duration_min, timers, delivered,
           videoFile, consent_confirmed, exercise_id, shown, analyzing, error, progress,
           run >>

service == << detector, initialized, detectorsCreated >>
clientVars == << initPc, frameCall >>
synthVars == << errorsIn, synthesis, framesIn, ruleOutput >>
appVars == << view, plan, sessions, saving, duration_min, timers, delivered >>
uiVars == << videoFile, consent_confirmed, exercise_id, shown, analyzing, error, progress,
             run >>
componentVars == << appVars, uiVars >>
loopVars == << duration, time, frameNumber, results >>
counters == << initCalls, seeks, draws, estimates, failedFrames >>
callArgs == << analyzer, videoInput, exerciseAtEntry >>

ConsentError == "Video analysis requires explicit consent."
InitError == "Failed to initialize pose detection. Please refresh and try again."
NotInitializedError == "Pose detector not initialized"
CanvasError == "Failed to create canvas context"
TypeError == "TypeError"

\* the other callers of the pose service
NumClients == 2
Clients == 1..NumClients

\* no handleAnalyze is running
NoRun == [pc |-> "idle", video |-> 0, exercise_id |-> "", totalFrames |-> 0,
          frameNumber |-> 0, drawn |-> <<>>, results |-> <<>>,
          errorsSet |-> 0, stored |-> FALSE]

Init ==
  /\ pc = "idle"
  /\ analyzer = "none"
  /\ videoInput = NoVideo
  /\ exercise = NoExercise
  /\ exerciseAtEntry = NoExercise
  /\ duration = 0
  /\ time = 0
  /\ frameNumber = 0
  /\ results = <<>>
  /\ detector = "null"
  /\ initialized = FALSE
  /\ analysis = <<>>
  /\ thrown = "none"
  /\ initCalls = 0
  /\ seeks = 0
  /\ draws = 0
  /\ estimates = 0
  /\ failedFrames = {}
  /\ prev = <<>>
  /\ detectorsCreated = 0
  /\ initPc = [c \in Clients |-> "idle"]
  /\ frameCall = "none"
  /\ errorsIn = <<>>
  /\ synthesis = <<>>
  /\ framesIn = <<>>
  /\ ruleOutput = <<>>
  /\ view = "input"
  /\ plan = FALSE
  /\ sessions = <<>>
  /\ saving = FALSE
  /\ duration_min = 60
  /\ timers = <<>>
  /\ delivered = <<>>
  /\ videoFile = 0
  /\ consent_confirmed = FALSE
  /\ exercise_id = ""
  /\ shown = <<>>
  /\ analyzing = FALSE
  /\ error = "null"
  /\ progress = 0
  /\ run = NoRun

\* s is an initial segment of t
IsPrefix(s, t) == Len(s) <= Len(t) /\ s = SubSeq(t, 1, Len(s))

\* the exercise objects a caller can pass: one it builds, or the object
\* it passed to the previous call
ExerciseArgs == Exercises \cup ({exercise} \ {NoExercise})

\* the call that has just returned, as the history keeps it
ThisCall ==
  << [analyzer |-> analyzer, videoInput |-> videoInput, exerciseId |-> exerciseAtEntry.id,
      results |-> results, analysis |-> analysis] >>

\* ---------------------------------------------------------------------
\* RealFormAnalyzer.analyzeVideoWithPoses
\* ---------------------------------------------------------------------
\* a consent check made too late to stop anything
ConsentRefusedNever(v) == FALSE

\* if (!videoInput.consent_confirmed) throw
ConsentRefused(v) == ~v.consent_confirmed

\* the call, up to its first await; p is the history's previous call
EnterAnalyzeVideoWithPoses(v, e, d, p) ==
  /\ analyzer' = "real"
  /\ videoInput' = v
  /\ exercise' = e
  /\ exerciseAtEntry' = e
  /\ duration' = d
  /\ time' = 0
  /\ frameNumber' = 0
  /\ results' = <<>>
  /\ analysis' = <<>>
  /\ initCalls' = 0
  /\ seeks' = 0
  /\ draws' = 0
  /\ estimates' = 0
  /\ failedFrames' = {}
  /\ prev' = p
  /\ IF ConsentRefused(v)
     THEN pc' = "thrown" /\ thrown' = ConsentError
     ELSE pc' = "initialize" /\ thrown' = "none"
  /\ UNCHANGED << service, clientVars, synthVars,
                  componentVars >>

\* a call with arguments of the caller's choice
AnalyzeVideoWithPoses(v, e, d) ==
  /\ pc = "idle"
  /\ EnterAnalyzeVideoWithPoses(v, e, d, <<>>)

\* the caller takes the report and makes the same call again: the same
\* metadata, the same exercise object, the same video
RepeatAnalyzeVideoWithPoses ==
  /\ pc = "returned"
  /\ analyzer = "real"
  /\ EnterAnalyzeVideoWithPoses(videoInput, exercise, duration, ThisCall)

\* an initialize() that marks the service initialized before the
\* backend has answered
InitializeFlagFirst(ok) ==
  /\ pc = "initialize"
  /\ initCalls' = initCalls + 1
  /\ initialized' = TRUE
  /\ IF initialized
     THEN pc' = "detect" /\ UNCHANGED << detector, detectorsCreated, thrown >>
     ELSE IF ok
     THEN /\ detector' = "detector"
          /\ detectorsCreated' = detectorsCreated + 1
          /\ pc' = "detect"
          /\ UNCHANGED thrown
     ELSE /\ pc' = "thrown"
          /\ thrown' = InitError
          /\ UNCHANGED << detector, detectorsCreated >>
  /\ UNCHANGED << callArgs, exercise, loopVars, analysis, seeks, draws, estimates,
                  failedFrames, prev, clientVars, synthVars,
                  componentVars >>

\* poseDetectionService.initialize(): ok is whether the backend and the
\* detector can be prepared
Initialize(ok) ==
  /\ pc = "initialize"
  /\ initCalls' = initCalls + 1
  /\ IF initialized
     THEN pc' = "detect" /\ UNCHANGED << service, thrown >>
     ELSE IF ok
     THEN /\ detector' = "detector"
          /\ initialized' = TRUE
          /\ detectorsCreated' = detectorsCreated + 1
          /\ pc' = "detect"
          /\ UNCHANGED thrown
     ELSE /\ pc' = "thrown"
          /\ thrown' = InitError
          /\ UNCHANGED service
  /\ UNCHANGED << callArgs, exercise, loopVars, analysis, seeks, draws, estimates,
                  failedFrames, prev, clientVars, synthVars,
                  componentVars >>

\* detectPosesInVideo up to its loop: ctxOk is whether the canvas gives
\* a 2d context
DetectPosesInVideo(ctxOk) ==
  /\ pc = "detect"
  /\ IF detector = "null"
     THEN pc' = "thrown" /\ thrown' = NotInitializedError
     ELSE IF ~ctxOk
     THEN pc' = "thrown" /\ thrown' = CanvasError
     ELSE pc' = "loop" /\ UNCHANGED thrown
  /\ results' = <<>>
  /\ time' = 0
  /\ frameNumber' = 0
  /\ UNCHANGED << callArgs, exercise, duration, service, analysis, counters, prev,
                  clientVars, synthVars,
                  componentVars >>

\* loop test true: videoElement.currentTime = time, then wait for seeked
Seek ==
  /\ pc = "loop"
  /\ time < duration
  /\ seeks' = seeks + 1
  /\ pc' = "seeking"
  /\ UNCHANGED << callArgs, exercise, loopVars, service, analysis, thrown, initCalls,
                  draws, estimates, failedFrames, prev, clientVars, synthVars,
                  componentVars >>

\* the seeked event: the frame is drawn to the canvas
Seeked ==
  /\ pc = "seeking"
  /\ draws' = draws + 1
  /\ pc' = "estimate"
  /\ UNCHANGED << callArgs, exercise, loopVars, service, analysis, thrown, initCalls,
                  seeks, estimates, failedFrames, prev, clientVars, synthVars,
                  componentVars >>

\* the try block of the loop body and the loop's increments: poses is
\* what estimatePoses returns when ok, and the call throws when not ok
EstimatePoses(ok, poses) ==
  /\ pc = "estimate"
  /\ IF detector = "null"
     THEN \* this.detector.estimatePoses on null: a TypeError, thrown
          \* inside the try block before any estimation, and caught
          /\ failedFrames' = failedFrames \cup {frameNumber}
          /\ UNCHANGED << results, estimates >>
     ELSE /\ estimates' = estimates + 1
          /\ IF ok
             THEN /\ results' = Append(results, [poses |-> poses,
                                                 frameNumber |-> frameNumber,
                                                 timestamp |-> time])
                  /\ UNCHANGED failedFrames
             ELSE /\ failedFrames' = failedFrames \cup {frameNumber}
                  /\ UNCHANGED results
  /\ frameNumber' = frameNumber + 1
  /\ time' = time + TicksPerFrame
  /\ prev' = IF prev # <<>> /\ IsPrefix(results', prev[1].results) THEN prev ELSE <<>>
  /\ pc' = "loop"
  /\ UNCHANGED << callArgs, exercise, duration, service, analysis, thrown, initCalls,
                  seeks, draws, clientVars, synthVars,
                  componentVars >>

\* loop test false: detectPosesInVideo returns results
ReturnResults ==
  /\ pc = "loop"
  /\ ~(time < duration)
  /\ pc' = "assemble"
  /\ UNCHANGED << callArgs, exercise, loopVars, service, analysis, thrown, counters, prev,
                  clientVars, synthVars,
                  componentVars >>

\* the rest of analyzeVideoWithPoses
Assemble ==
  /\ pc = "assemble"
  /\ LET out == AssembleReport(results, videoInput, exercise)
     IN  /\ exercise' = out.exercise
         /\ analysis' = out.analysis
         /\ IF out.throws
            THEN pc' = "thrown" /\ thrown' = TypeError
            ELSE pc' = "returned" /\ UNCHANGED thrown
  /\ UNCHANGED << callArgs, loopVars, service, counters, prev, clientVars, synthVars,
                  componentVars >>

\* ---------------------------------------------------------------------
\* FormAnalyzer.analyzeForm, a synchronous call
\* ---------------------------------------------------------------------
EnterAnalyzeForm(v, e, p) ==
  /\ analyzer' = "meta"
  /\ videoInput' = v
  /\ exerciseAtEntry' = e
  /\ duration' = 0
  /\ time' = 0
  /\ frameNumber' = 0
  /\ results' = <<>>
  /\ initCalls' = 0
  /\ seeks' = 0
  /\ draws' = 0
  /\ estimates' = 0
  /\ failedFrames' = {}
  /\ prev' = p
  /\ IF ConsentRefused(v)
     THEN /\ pc' = "thrown"
          /\ thrown' = ConsentError
          /\ exercise' = e
          /\ analysis' = <<>>
     ELSE LET out == FormAnalyzerReport(v, e)
          IN  /\ pc' = "returned"
              /\ thrown' = "none"
              /\ exercise' = out.exercise
              /\ analysis' = out.analysis
  /\ UNCHANGED << service, clientVars, synthVars,
                  componentVars >>

AnalyzeForm(v, e) ==
  /\ pc = "idle"
  /\ EnterAnalyzeForm(v, e, <<>>)

\* the caller takes the report and makes the same call again
RepeatAnalyzeForm ==
  /\ pc = "returned"
  /\ analyzer = "meta"
  /\ EnterAnalyzeForm(videoInput, exercise, ThisCall)

\* ---------------------------------------------------------------------
\* The caller takes the outcome and the call's frame is gone; the
\* exercise object and the pose service live on
\* ---------------------------------------------------------------------
Settle ==
  /\ pc \in {"returned", "thrown"}
  /\ pc' = "idle"
  /\ analyzer' = "none"
  /\ videoInput' = NoVideo
  /\ exerciseAtEntry' = NoExercise
  /\ duration' = 0
  /\ time' = 0
  /\ frameNumber' = 0
  /\ results' = <<>>
  /\ analysis' = <<>>
  /\ thrown' = "none"
  /\ initCalls' = 0
  /\ seeks' = 0
  /\ draws' = 0
  /\ estimates' = 0
  /\ failedFrames' = {}
  /\ prev' = <<>>
  /\ UNCHANGED << exercise, service, clientVars, synthVars,
                  componentVars >>

Next ==
  \/ \E v \in VideoInputs, e \in ExerciseArgs, d \in 0..MaxDuration :
       AnalyzeVideoWithPoses(v, e, d)
  \/ RepeatAnalyzeVideoWithPoses
  \/ \E ok \in BOOLEAN : Initialize(ok)
  \/ \E ctxOk \in BOOLEAN : DetectPosesInVideo(ctxOk)
  \/ Seek
  \/ Seeked
  \/ \E poses \in PoseLists : EstimatePoses(TRUE, poses)
  \/ EstimatePoses(FALSE, <<>>)
  \/ ReturnResults
  \/ Assemble
  \/ \E v \in VideoInputs, e \in ExerciseArgs \cup {NoExercise} : AnalyzeForm(v, e)
  \/ RepeatAnalyzeForm
  \/ Settle

Spec == Init /\ [][Next]_vars

\* ---------------------------------------------------------------------
\* The pose service under several callers: poseDetectionService is a
\* module-level singleton, and initialize, detectPosesInFrame and
\* dispose are public
\* ---------------------------------------------------------------------
\* initialize() up to its first await: `if (this.initialized) return`
InitializeCall(c) ==
  /\ initPc[c] = "idle"
  /\ initPc' = [initPc EXCEPT ![c] = IF initialized THEN "idle" ELSE "awaiting"]
  /\ UNCHANGED << pc, callArgs, exercise, loopVars, service, analysis, thrown, counters,
                  prev, frameCall, synthVars,
                  componentVars >>

\* the awaits of initialize() are over: createDetector has resolved (ok)
\* and the detector is stored, or something in the try block has thrown
InitializeResolved(c, ok) ==
  /\ initPc[c] = "awaiting"
  /\ initPc' = [initPc EXCEPT ![c] = "idle"]
  /\ IF ok
     THEN /\ detector' = "detector"
          /\ initialized' = TRUE
          /\ detectorsCreated' = detectorsCreated + 1
     ELSE UNCHANGED service
  /\ UNCHANGED << pc, callArgs, exercise, loopVars, analysis, thrown, counters, prev,
                  frameCall, synthVars,
                  componentVars >>

\* detectPosesInFrame(imageData)
DetectPosesInFrame ==
  /\ frameCall' = IF detector = "null" THEN NotInitializedError ELSE "poses"
  /\ UNCHANGED << pc, callArgs, exercise, loopVars, service, analysis, thrown, counters,
                  prev, initPc, synthVars,
                  componentVars >>

\* dispose()
Dispose ==
  /\ IF detector # "null"
     THEN /\ detector' = "null"
          /\ initialized' = FALSE
          /\ detectorsCreated' = 0
     ELSE UNCHANGED service
  /\ UNCHANGED << pc, callArgs, exercise, loopVars, analysis, thrown, counters, prev,
                  clientVars, synthVars,
                  componentVars >>

\* the analysis calls made while the service is shared
ServiceExercises == { e \in Exercises : e.id = "squat" }
ServicePoseLists == { <<>>, << PoseValgus >> }

NextService ==
  \/ \E v \in VideoInputs, e \in ServiceExercises, d \in 0..MaxDuration :
       AnalyzeVideoWithPoses(v, e, d)
  \/ \E ok \in BOOLEAN : Initialize(ok)
  \/ \E ctxOk \in BOOLEAN : DetectPosesInVideo(ctxOk)
  \/ Seek
  \/ Seeked
  \/ \E poses \in ServicePoseLists : EstimatePoses(TRUE, poses)
  \/ EstimatePoses(FALSE, <<>>)
  \/ ReturnResults
  \/ Assemble
  \/ Settle
  \/ \E c \in Clients : InitializeCall(c)
  \/ \E c \in Clients, ok \in BOOLEAN : InitializeResolved(c, ok)
  \/ DetectPosesInFrame
  \/ Dispose

SpecService == Init /\ [][NextService]_vars

\* ---------------------------------------------------------------------
\* The coaching synthesizer as pure functions of an error list: the
\* recommended action, the summary and the cue queue of either analyzer
\* ---------------------------------------------------------------------
MaxErrors == 3

\* start frames: within the first second, the frame of second 3, the
\* first frame of minute 1, the last frame of minute 99 and the first
\* of minute 100
SynthFrames == { 29, 90, 1800, 179999, 180000 }

\* errors of each severity, as the rule sets build them
SynthErrors ==
  { KneeValgus(f, f) : f \in SynthFrames }
    \cup { ForwardLean(f, f) : f \in SynthFrames }
    \cup { RoundedBack(f, f) : f \in SynthFrames }

\* an exercise with cues and one without
SynthExercises == { e \in Exercises : e.id \in {"squat", "pushup"} }

\* errors.push(error) by a rule set
PushError(e) ==
  /\ Len(errorsIn) < MaxErrors
  /\ errorsIn' = Append(errorsIn, e)
  /\ synthesis' = <<>>
  /\ UNCHANGED << pc, callArgs, exercise, loopVars, service, analysis, thrown, counters,
                  prev, clientVars, componentVars,
                  framesIn, ruleOutput >>

\* the synthesizer calls of analyzeVideoWithPoses (a = "real") or of
\* analyzeForm (a = "meta") on the error list
Synthesize(a, e) ==
  /\ synthesis = <<>>
  /\ LET recommendedAction == determineRecommendedAction(errorsIn)
     IN  synthesis' =
           << [analyzer |-> a,
               exerciseId |-> e.id,
               recommended_action |-> recommendedAction,
               form_analysis_summary |-> generateSummary(errorsIn, recommendedAction),
               timestamped_coaching_queue |->
                 IF a = "real" THEN generateTimestampedCues(errorsIn, e)
                 ELSE FormAnalyzer_generateTimestampedCues(errorsIn, e)] >>
  /\ UNCHANGED << pc, callArgs, exercise, loopVars, service, analysis, thrown, counters,
                  prev, clientVars, componentVars,
                  errorsIn, framesIn, ruleOutput >>

NextSynth ==
  \/ \E e \in SynthErrors : PushError(e)
  \/ \E a \in {"real", "meta"}, e \in SynthExercises : Synthesize(a, e)

SpecSynth == Init /\ [][NextSynth]_vars

\* ---------------------------------------------------------------------
\* The rule sets and the quality assessor as pure functions of a frame
\* sequence
\* ---------------------------------------------------------------------
MaxFrames == 3

\* a squat with the hips exactly 20 px above the knees (average hip y =
\* average knee y - 20), left knee 60 px off the left ankle
PoseBoundary ==
  [score |-> 80,
   keypoints |-> << Kp("left_shoulder", 320, 240, 80), Kp("right_shoulder", 360, 240, 80),
                    Kp("left_hip", 320, 430, 80),      Kp("right_hip", 360, 430, 80),
                    Kp("left_knee", 380, 450, 80),     Kp("right_knee", 360, 450, 80),
                    Kp("left_ankle", 320, 600, 80),    Kp("right_ankle", 360, 600, 80) >>]

\* a lifter seen from the side in image coordinates (y grows downwards):
\* shoulders above hips above knees, trunk close to horizontal
PoseFlatBack ==
  [score |-> 80,
   keypoints |-> << Kp("left_shoulder", 100, 330, 80), Kp("right_shoulder", 140, 330, 80),
                    Kp("left_hip", 320, 350, 80),      Kp("right_hip", 360, 350, 80),
                    Kp("left_knee", 320, 450, 80),     Kp("right_knee", 360, 450, 80),
                    Kp("left_ankle", 320, 600, 80),    Kp("right_ankle", 360, 600, 80) >>]

\* hips above the knees and below the shoulders in image y, each
\* shoulder at the x of its hip
PoseStacked ==
  [score |-> 80,
   keypoints |-> << Kp("left_shoulder", 320, 400, 80), Kp("right_shoulder", 360, 400, 80),
                    Kp("left_hip", 320, 350, 80),      Kp("right_hip", 360, 350, 80),
                    Kp("left_knee", 320, 300, 80),     Kp("right_knee", 360, 300, 80),
                    Kp("left_ankle", 320, 600, 80),    Kp("right_ankle", 360, 600, 80) >>]

RulePoseLists == PoseLists \cup { << PoseBoundary >>, << PoseFlatBack >>, << PoseStacked >> }

\* one exercise for each rule set, and one that no rule set takes
RuleExercises ==
  { e \in Exercises : e.id \in {"squat", "deadlift", "bench", "pushup", "lunge", "plank"} }

\* results.push({ poses, frameNumber, timestamp }) with every frame kept
PushFrame(poses) ==
  /\ Len(framesIn) < MaxFrames
  /\ framesIn' = Append(framesIn, [poses |-> poses, frameNumber |-> Len(framesIn),
                                   timestamp |-> Len(framesIn) * TicksPerFrame])
  /\ ruleOutput' = <<>>
  /\ UNCHANGED << pc, callArgs, exercise, loopVars, service, analysis, thrown, counters,
                  prev, clientVars, componentVars,
                  errorsIn, synthesis >>

\* analyzeFormFromPoses and assessVideoQuality on the sequence
AnalyzeFrames(e) ==
  /\ ruleOutput = <<>>
  /\ ruleOutput' = << [exercise |-> e,
                       errors |-> analyzeFormFromPoses(framesIn, e),
                       video_quality_flags |-> assessVideoQuality(framesIn)] >>
  /\ UNCHANGED << pc, callArgs, exercise, loopVars, service, analysis, thrown, counters,
                  prev, clientVars, componentVars,
                  errorsIn, synthesis, framesIn >>

NextRules ==
  \/ \E poses \in RulePoseLists : PushFrame(poses)
  \/ \E e \in RuleExercises : AnalyzeFrames(e)

SpecRules == Init /\ [][NextRules]_vars

\* ---------------------------------------------------------------------
\* App and SessionTracker: logging workout sessions
\* ---------------------------------------------------------------------
MaxSaves == 3

engineVars == << pc, callArgs, exercise, loopVars, service, analysis, thrown, counters,
                 prev, clientVars, synthVars >>

Views == {"input", "plan", "video", "tracker", "progress"}

\* the timer callback of handleGeneratePlan: setPlan, setView('plan'),
\* or console.error and alert when the generator throws
GeneratePlan(ok) ==
  /\ view = "input"
  /\ IF ok THEN plan' = TRUE /\ view' = "plan"
           ELSE UNCHANGED << plan, view >>
  /\ UNCHANGED << sessions, saving, duration_min, timers, delivered, uiVars, engineVars >>

\* a navigation button: setView(v).  The buttons other than New Plan
\* are rendered when a plan exists.  Leaving the tracker view unmounts
\* the SessionTracker: its state is gone (the next mount starts from
\* useState's initial values) and its pending timers are not cleared.
SetView(v) ==
  /\ v # view
  /\ v = "input" \/ plan
  /\ view' = v
  /\ IF view = "tracker"
     THEN /\ saving' = FALSE
          /\ duration_min' = 60
          /\ timers' = [k \in DOMAIN timers |-> [timers[k] EXCEPT !.mounted = FALSE]]
     ELSE UNCHANGED << saving, duration_min, timers >>
  /\ UNCHANGED << plan, sessions, delivered, uiVars, engineVars >>

\* the duration input: setSessionData({...sessionData, duration_min}),
\* 0 standing for the NaN of an emptied field
SetDuration(d) ==
  /\ view = "tracker" /\ plan
  /\ d # duration_min
  /\ duration_min' = d
  /\ UNCHANGED << view, plan, sessions, saving, timers, delivered, uiVars, engineVars >>

\* handleSave, from the Log Session button (disabled while saving or
\* without a duration): setSaving(true) and setTimeout(..., 500).  The
\* callback closes over this render's sessionData and onSessionSaved,
\* which is the handleSessionSaved of the App render that passed it and
\* so closes over that render's sessions.
handleSave ==
  /\ view = "tracker" /\ plan
  /\ ~saving
  /\ duration_min # 0
  /\ Len(timers) + Len(delivered) < MaxSaves
  /\ saving' = TRUE
  /\ timers' = Append(timers, [sessions |-> sessions, duration_min |-> duration_min,
                               mounted |-> TRUE])
  /\ UNCHANGED << view, plan, sessions, duration_min, delivered, uiVars, engineVars >>

\* the oldest timer fires: the session is built with a fresh id and
\* passed to handleSessionSaved, which calls
\* setSessions([session, ...sessions]) with the sessions it closed over;
\* setSessionData and setSaving act on the tracker that set the timer,
\* if it is still mounted
TimerFires ==
  /\ Len(timers) > 0
  /\ LET t == Head(timers)
         session == [id |-> Len(delivered) + 1, duration_min |-> t.duration_min]
     IN  /\ sessions' = << session >> \o t.sessions
         /\ delivered' = Append(delivered, session.id)
         /\ IF t.mounted THEN saving' = FALSE /\ duration_min' = 60
                         ELSE UNCHANGED << saving, duration_min >>
  /\ timers' = Tail(timers)
  /\ UNCHANGED << view, plan, uiVars, engineVars >>

NextSessions ==
  \/ \E ok \in BOOLEAN : GeneratePlan(ok)
  \/ \E v \in Views : SetView(v)
  \/ \E d \in {0, 60} : SetDuration(d)
  \/ handleSave
  \/ TimerFires

SpecSessions == Init /\ [][NextSessions]_vars

\* ---------------------------------------------------------------------
\* The VideoAnalysis component: handleVideoUpload and handleAnalyze over
\* the shared <video> element and the pose service
\* ---------------------------------------------------------------------
MaxUploads == 2
VideoFrames == 2

engineRest == << pc, callArgs, exercise, loopVars, analysis, thrown, counters, prev,
                 clientVars, synthVars >>

UploadTypeError == "Please upload a valid video file."
UploadSizeError == "Video file size must be less than 100MB."

\* the file input's change event, enabled at all times: file is "none"
\* (the dialog was cancelled), "other" (not a video), "large" (over
\* 100 MB) or "video".  The <video> element's src follows videoUrl, so
\* the element shows the file loaded last.
handleVideoUpload(file) ==
  /\ videoFile < MaxUploads
  /\ CASE file = "none" -> UNCHANGED << videoFile, error, shown >>
       [] file = "other" -> error' = UploadTypeError /\ UNCHANGED << videoFile, shown >>
       [] file = "large" -> error' = UploadSizeError /\ UNCHANGED << videoFile, shown >>
       [] file = "video" -> /\ videoFile' = videoFile + 1
                            /\ error' = "null"
                            /\ shown' = <<>>
  /\ UNCHANGED << consent_confirmed, exercise_id, analyzing, progress, run, appVars,
                  engineVars >>

\* the consent checkbox
SetConsent(checked) ==
  /\ checked # consent_confirmed
  /\ consent_confirmed' = checked
  /\ UNCHANGED << videoFile, exercise_id, shown, analyzing, error, progress, run, appVars,
                  engineVars >>

\* the exercise select, whose options are the exercises of the plan
SelectExercise(id) ==
  /\ id # exercise_id
  /\ exercise_id' = id
  /\ UNCHANGED << videoFile, consent_confirmed, shown, analyzing, error, progress, run,
                  appVars, engineVars >>

\* handleAnalyze up to its await, from the Analyze button (disabled
\* while analyzing or without consent, exercise or file).
\* analyzeVideoWithPoses receives videoRef.current, the element, and
\* suspends at await poseDetectionService.initialize().
handleAnalyze ==
  /\ ~analyzing /\ consent_confirmed /\ exercise_id # "" /\ videoFile # 0
  /\ progress' = 0
  /\ IF ~consent_confirmed
     THEN /\ error' = "You must confirm consent to video analysis before proceeding."
          /\ UNCHANGED << analyzing, run >>
     ELSE IF exercise_id = ""
     THEN /\ error' = "Please select an exercise."
          /\ UNCHANGED << analyzing, run >>
     ELSE IF videoFile = 0
     THEN /\ error' = "Please upload a video file first."
          /\ UNCHANGED << analyzing, run >>
     ELSE /\ error' = "null"
          /\ analyzing' = TRUE
          /\ run' = [NoRun EXCEPT !.pc = "initialize", !.video = videoFile,
                                  !.exercise_id = exercise_id]
  /\ UNCHANGED << videoFile, consent_confirmed, exercise_id, shown, appVars, engineVars >>

\* the catch without the finally
RejectedNoFinally(message) ==
  /\ error' = message
  /\ run' = [NoRun EXCEPT !.errorsSet = 1]
  /\ UNCHANGED << shown, analyzing, progress >>

\* catch and finally of handleAnalyze after a rejection with message
Rejected(message) ==
  /\ error' = message
  /\ analyzing' = FALSE
  /\ progress' = 0
  /\ run' = [NoRun EXCEPT !.errorsSet = 1]
  /\ UNCHANGED shown

\* what a running handleAnalyze does once detectPosesInVideo has
\* returned results: the rest of analyzeVideoWithPoses, then
\* setAnalysis(result), or the catch when the assembly throws (it
\* throws where extractKeyLandmarks does), then the finally.  The
\* component hands the report to the display unread, so the analysis
\* displayed is kept as what the report is assembled from: the results
\* and the exercise, with the file the run was started for and the
\* files its frames were drawn from.
Settled(poseResults) ==
  IF extractKeyLandmarks(poseResults).throws
  THEN Rejected(TypeError)
  ELSE /\ shown' = << [poseResults |-> poseResults,
                       exercise_id |-> run.exercise_id,
                       video |-> run.video,
                       drawn |-> run.drawn] >>
       /\ analyzing' = FALSE
       /\ progress' = 0
       /\ run' = [NoRun EXCEPT !.stored = TRUE]
       /\ UNCHANGED error

\* initialize() settles; when it resolves detectPosesInVideo runs up to
\* the await of its first seek: the detector and canvas checks, the
\* read of the element's duration, currentTime = 0
InitializeSettled(ok, ctxOk) ==
  /\ run.pc = "initialize"
  /\ IF ~initialized /\ ~ok
     THEN Rejected(InitError) /\ UNCHANGED service
     ELSE /\ IF initialized THEN UNCHANGED service
             ELSE /\ detector' = "detector"
                  /\ initialized' = TRUE
                  /\ detectorsCreated' = detectorsCreated + 1
          /\ IF ~ctxOk THEN Rejected(CanvasError)
             ELSE /\ run' = [run EXCEPT !.pc = "seeking", !.totalFrames = VideoFrames]
                  /\ UNCHANGED << shown, analyzing, error, progress >>
  /\ UNCHANGED << videoFile, consent_confirmed, exercise_id, appVars, engineRest >>

\* the element's seeked event: the listener resolves, drawImage copies
\* the element's current picture, which is a picture of the file the
\* element shows now, and estimatePoses is called
SeekedEvent ==
  /\ run.pc = "seeking"
  /\ run' = [run EXCEPT !.pc = "estimating", !.drawn = Append(@, videoFile)]
  /\ UNCHANGED << videoFile, consent_confirmed, exercise_id, shown, analyzing, error,
                  progress, appVars, engineVars >>

\* estimatePoses settles: the result is pushed and onProgress called,
\* or the error is logged; frameNumber++; then the next seek, or the
\* return of detectPosesInVideo and all that follows it in handleAnalyze
EstimateSettled(ok, poses) ==
  /\ run.pc = "estimating"
  /\ LET pushed == IF ok
                   THEN Append(run.results,
                               [poses |-> poses, frameNumber |-> run.frameNumber,
                                timestamp |-> run.frameNumber * TicksPerFrame])
                   ELSE run.results
     IN  IF run.frameNumber + 1 < run.totalFrames
         THEN /\ run' = [run EXCEPT !.pc = "seeking", !.results = pushed,
                                    !.frameNumber = @ + 1]
              /\ progress' = IF ok THEN (run.frameNumber * 100) \div run.totalFrames
                                   ELSE progress
              /\ UNCHANGED << shown, analyzing, error >>
         ELSE Settled(pushed)
  /\ UNCHANGED << videoFile, consent_confirmed, exercise_id, appVars, engineVars >>

\* the continuations of a running handleAnalyze
RunStep ==
  \/ \E ok, ctxOk \in BOOLEAN : InitializeSettled(ok, ctxOk)
  \/ SeekedEvent
  \/ \E ok \in BOOLEAN, poses \in ServicePoseLists : EstimateSettled(ok, poses)

NextUI ==
  \/ \E file \in {"none", "other", "large", "video"} : handleVideoUpload(file)
  \/ \E checked \in BOOLEAN : SetConsent(checked)
  \/ \E id \in {"", "squat"} : SelectExercise(id)
  \/ handleAnalyze
  \/ RunStep

SpecUI == Init /\ [][NextUI]_vars

\* every seek fires its seeked event and every call of initialize and
\* of estimatePoses settles
SpecUIFair == SpecUI /\ WF_vars(RunStep)

\* ---------------------------------------------------------------------
\* Properties
\* ---------------------------------------------------------------------
Finished == pc \in {"returned", "thrown"}

\* the error list of the report just returned
Errors == analysis[1].errors

AllFramesEmpty == \A i \in 1..Len(results) : Len(results[i].poses) = 0

\* C1: consent gate.  A call of either analyzer whose metadata has
\* consent_confirmed false has thrown the consent error, and in no state
\* of that call has the detector been initialized, a seek been made, a
\* frame been read, a pose been estimated or a report been produced.
C1_ConsentGate ==
  (pc # "idle" /\ ~videoInput.consent_confirmed)
    => /\ pc = "thrown"
       /\ thrown = ConsentError
       /\ initCalls = 0
       /\ seeks = 0
       /\ draws = 0
       /\ estimates = 0
       /\ analysis = <<>>

\* a pose-driven call refused for lack of consent while the detector of
\* an earlier call is ready
C1_Witness ==
  /\ pc = "thrown"
  /\ analyzer = "real"
  /\ ~videoInput.consent_confirmed
  /\ initialized

InRange(c) == ~c.nan /\ 10 * c.num >= 3 * c.den /\ c.num <= c.den

\* C2: the overall_confidence of every report returned by either
\* analyzer lies in [0.3, 1.0], whatever the frame sequence and the
\* metadata.
C2_ConfidenceInRange ==
  pc = "returned" => InRange(analysis[1].overall_confidence)

\* a rule set was dispatched to
RuleSetRan == Len(results) # 0 /\ RuleSet(exerciseAtEntry) # "none"

\* C3: if every frame of the sequence has zero poses, the error list is
\* exactly [no_pose_detected] (major, camera_issue) and no exercise rule
\* is evaluated, for every exercise and sequence length.
C3_NoPoseShortCircuit ==
  (pc = "returned" /\ analyzer = "real" /\ AllFramesEmpty)
    => (Errors = << NoPoseDetected >> /\ ~RuleSetRan)

\* C4: determinism.  A call that repeats the previous call of the same
\* analyzer (same frame sequence, metadata and exercise) returns an
\* equal report.
C4_Determinism ==
  (pc = "returned" /\ prev # <<>> /\ prev[1].results = results)
    => analysis = prev[1].analysis

\* C5: when a call of either analyzer returns, the exercise passed in
\* is as it was passed in.
C5_ExerciseUnchanged ==
  pc = "returned" => exercise = exerciseAtEntry

\* C6: a frame whose estimation failed is in the sequence as a frame
\* with zero poses, so that the sequence has one entry for each frame
\* sampled.
C6_FailedFrameKept ==
  /\ \A f \in failedFrames :
       \E i \in 1..Len(results) :
         results[i].frameNumber = f /\ Len(results[i].poses) = 0
  /\ pc \in {"loop", "assemble"} => Len(results) = estimates

\* C7: in the sequence built by detectPosesInVideo the entry at position
\* i (from 0) has frameNumber i, and timestamps increase strictly.
C7_ContiguousFrames ==
  \A i \in 1..Len(results) :
    /\ results[i].frameNumber = i - 1
    /\ i > 1 => results[i - 1].timestamp < results[i].timestamp

\* C8: in the error list of every report, of either analyzer, no two
\* errors share an id.
C8_UniqueErrorIds ==
  pc = "returned"
    => \A i, j \in 1..Len(Errors) : i # j => Errors[i].id # Errors[j].id

\* a squat report over a sequence in which two frames set off a rule
C8_Witness ==
  /\ pc = "returned"
  /\ analyzer = "real"
  /\ RuleSet(exerciseAtEntry) = "squat"
  /\ Cardinality({ i \in 1..Len(results) : SquatFrame(results[i]) # <<>> }) >= 2
  /\ Len(Errors) = 1

\* a frame in bottom position (average hip y >= average knee y - 20)
\* with all six leg joints and a knee more than 50 px off its ankle
ValgusFrame(r) ==
  /\ HasJoints(r, {"left_hip", "right_hip", "left_knee", "right_knee",
                   "left_ankle", "right_ankle"})
  /\ LET pose == r.poses[1]
         leftHip == getKeypointByName(pose, "left_hip")
         rightHip == getKeypointByName(pose, "right_hip")
         leftKnee == getKeypointByName(pose, "left_knee")
         rightKnee == getKeypointByName(pose, "right_knee")
         leftAnkle == getKeypointByName(pose, "left_ankle")
         rightAnkle == getKeypointByName(pose, "right_ankle")
     IN  /\ leftHip.y + rightHip.y >= leftKnee.y + rightKnee.y - 40
         /\ ( Abs(leftKnee.x - leftAnkle.x) > 50 \/ Abs(rightKnee.x - rightAnkle.x) > 50 )

\* C9: a squat sequence with at least one such frame yields a
\* knee_valgus error, moderate, cause strength, whatever the other
\* frames contain.
C9_ValgusReported ==
  ( /\ pc = "returned"
    /\ analyzer = "real"
    /\ "squat" \in exerciseAtEntry.nameIncludes
    /\ \E i \in 1..Len(results) : ValgusFrame(results[i]) )
    => \E k \in 1..Len(Errors) :
         /\ Errors[k].id = "knee_valgus"
         /\ Errors[k].severity = "moderate"
         /\ Errors[k].primary_cause = "strength"

\* C10: with consent given and the detector initialized, a call over a
\* non-empty sequence, any of whose frames may have zero poses, returns
\* a report and does not throw.
C10_DegradedStillReports ==
  ( /\ Finished
    /\ analyzer = "real"
    /\ videoInput.consent_confirmed
    /\ initialized
    /\ Len(results) > 0 )
    => (pc = "returned" /\ analysis # <<>>)

\* the number of frames in the analysed sequence
sequenceLength == Len(results)

\* C11: every FormError of a report has a frameRange [start, end] with
\* 0 <= start <= end <= sequenceLength - 1, sequenceLength being the
\* number of frames of the analysed sequence; for the rule errors and
\* for no_pose_detected.  (The metadata-driven analyzer is given no
\* sequence: its ranges are the literals of detectFormErrors.)
C11_FrameRangeInSequence ==
  (pc = "returned" /\ analyzer = "real")
    => \A k \in 1..Len(Errors) :
         /\ 0 <= Errors[k].frames[1]
         /\ Errors[k].frames[1] <= Errors[k].frames[2]
         /\ Errors[k].frames[2] <= sequenceLength - 1

\* const totalFrames = Math.floor(duration * fps), the total the progress
\* callback divides by; d is the duration in ticks
totalFrames(d) == d \div TicksPerFrame

\* C17: for every duration, when no estimation fails, the sequence
\* returned by detectPosesInVideo has exactly floor(duration x 30)
\* frames, sampled at times 0, 1/30, 2/30, ... below duration, and the
\* progress total equals the number of frames sampled.
C17_FrameCount ==
  (pc = "assemble" /\ failedFrames = {})
    => /\ Len(results) = totalFrames(duration)
       /\ \A i \in 1..Len(results) :
            /\ results[i].timestamp = (i - 1) * TicksPerFrame
            /\ results[i].timestamp < duration

\* the coaching queue of the report just returned
Queue == analysis[1].timestamped_coaching_queue

\* C18: the coaching queue of every report, of either analyzer, is the
\* fixed check-setup cue at 00:00:05, then one cue for each of the first
\* min(3, n) errors in error-list order, then, if the exercise has a
\* non-empty cue list, its first cue at 00:00:15.
C18_CueQueueShape ==
  pc = "returned"
    => LET n == Len(Errors)
           k == IF n < 3 THEN n ELSE 3
           tail == IF Len(exerciseAtEntry.cues) > 0 THEN 1 ELSE 0
       IN  /\ Len(Queue) = 1 + k + tail
           /\ Queue[1] = [time_s |-> "00:00:05", cue |-> "Check setup position and alignment"]
           /\ \A i \in 1..k : Queue[1 + i].cue = Errors[i].coaching_cue
           /\ tail = 1 => Queue[1 + k + 1] = [time_s |-> "00:00:15",
                                              cue |-> exerciseAtEntry.cues[1]]

Digit(d) == << "0", "1", "2", "3", "4", "5", "6", "7", "8", "9" >>[d + 1]

\* n in 0..99 written with two digits
TwoDigits(n) == Digit(n \div 10) \o Digit(n % 10)

\* HH:MM:SS of s seconds with the hours fixed at 00, for s below 6000
Clock(s) == "00:" \o TwoDigits(s \div 60) \o ":" \o TwoDigits(s % 60)

\* the seconds a timestamp of the first minute stands for
ClockSeconds(t) == CHOOSE s \in 0..59 : Clock(s) = t

\* C19: reading the coaching queue of a report front to back, the
\* HH:MM:SS timestamps never decrease.
C19_QueueTimeOrdered ==
  pc = "returned"
    => \A i \in 1..(Len(Queue) - 1) :
         ClockSeconds(Queue[i].time_s) <= ClockSeconds(Queue[i + 1].time_s)

\* C16: when the pose backend cannot be prepared, initialize fails with
\* the initialization error and analyzeVideoWithPoses passes it on: the
\* call has made its one initialize call and no other, has sought, read
\* and estimated no frame and produced no report, and the service is
\* left uninitialized and without a detector, so that a later
\* initialize call tries again.
C16_InitFailurePropagates ==
  thrown = InitError
    => /\ pc = "thrown"
       /\ analyzer = "real"
       /\ initCalls = 1
       /\ seeks = 0
       /\ draws = 0
       /\ estimates = 0
       /\ results = <<>>
       /\ analysis = <<>>
       /\ ~initialized
       /\ detector = "null"

\* a consenting call that has thrown the initialization error
C16_Witness ==
  /\ pc = "thrown"
  /\ thrown = InitError
  /\ videoInput.consent_confirmed

\* C14: over any interleaving of initialize calls without an intervening
\* dispose, a second call starting while the first still awaits the
\* backend included, at most one detector is created, and the service
\* holds it.
C14_InitializeOnce ==
  /\ detectorsCreated <= 1
  /\ detectorsCreated = 1 => (detector = "detector" /\ initialized)

\* C15: after dispose no pose estimation is performed until initialize
\* has completed again: detectPosesInVideo and detectPosesInFrame
\* started after dispose fail with the not-initialized error, and a
\* frame loop that was running when dispose was called estimates no
\* further frame and does not return a sequence short of the frames the
\* disposed detector never saw as if the analysis had succeeded.
C15_NoEstimationAfterDispose ==
  /\ [][ detector = "null"
           => /\ estimates' <= estimates
              /\ (pc = "detect" /\ pc' # "detect")
                   => (pc' = "thrown" /\ thrown' = NotInitializedError)
              /\ frameCall' # frameCall => frameCall' = NotInitializedError ]_vars
  /\ []( (pc = "returned" /\ analyzer = "real") => estimates = frameNumber )

\* at least k errors of the list have severity sev
AtLeast(errors, sev, k) ==
  \E S \in SUBSET (1..Len(errors)) :
    /\ Cardinality(S) = k
    /\ \A i \in S : errors[i].severity = sev

\* C12: determineRecommendedAction follows the ordered policy, first
\* match wins: any major error gives regress_and_retest; else at least 3
\* moderate errors give regress_and_retest; else at least 1 moderate or
\* at least 2 minor errors give proceed_with_cues; else proceed.  For
\* every error list the result is the one of this table, and
\* stop_and_seek_physio is never the result.
C12_ActionPolicy ==
  synthesis # <<>>
    => /\ synthesis[1].recommended_action =
            ( IF AtLeast(errorsIn, "major", 1) THEN "regress_and_retest"
              ELSE IF AtLeast(errorsIn, "moderate", 3) THEN "regress_and_retest"
              ELSE IF AtLeast(errorsIn, "moderate", 1) \/ AtLeast(errorsIn, "minor", 2)
                   THEN "proceed_with_cues"
              ELSE "proceed" )
       /\ synthesis[1].recommended_action # "stop_and_seek_physio"

\* exactly three moderate errors and no major one: regress_and_retest
C12_Witness ==
  /\ synthesis # <<>>
  /\ Len(errorsIn) = 3
  /\ \A i \in 1..3 : errorsIn[i].severity = "moderate"
  /\ synthesis[1].recommended_action = "regress_and_retest"

\* the number of errors of severity sev, written in decimal (below 10)
Cited(errors, sev) ==
  LET IsSev(e) == e.severity = sev
  IN  Digit(Len(SelectSeq(errors, IsSev)))

\* C13: the summary is chosen by first match of: zero errors, the fixed
\* success message; any major error, the alarm message citing the major
\* count; at least 2 moderate errors, the needs-improvement message
\* citing the moderate and minor counts; otherwise the
\* acceptable-with-cues message.  With zero errors the recommended
\* action is proceed and the summary the fixed success message.
C13_SummaryPolicy ==
  synthesis # <<>>
    => /\ synthesis[1].form_analysis_summary =
            ( IF Len(errorsIn) = 0
              THEN "Excellent form! Continue with current progression."
              ELSE IF AtLeast(errorsIn, "major", 1)
              THEN "Unsafe form detected (" \o Cited(errorsIn, "major")
                   \o " major issues). Regress to lighter load or modified variation immediately."
              ELSE IF AtLeast(errorsIn, "moderate", 2)
              THEN "Form needs improvement (" \o Cited(errorsIn, "moderate") \o " moderate, "
                   \o Cited(errorsIn, "minor")
                   \o " minor issues). Apply coaching cues and consider regression."
              ELSE "Form acceptable with cues (" \o Cited(errorsIn, "moderate") \o " moderate, "
                   \o Cited(errorsIn, "minor") \o " minor issues). Focus on primary corrections." )
       /\ Len(errorsIn) = 0
            => /\ synthesis[1].recommended_action = "proceed"
               /\ synthesis[1].form_analysis_summary
                    = "Excellent form! Continue with current progression."

\* a list with a major error and two moderate ones: the alarm message
C13_Witness ==
  /\ synthesis # <<>>
  /\ AtLeast(errorsIn, "major", 1)
  /\ AtLeast(errorsIn, "moderate", 2)
  /\ synthesis[1].form_analysis_summary
       = "Unsafe form detected (1 major issues). Regress to lighter load or modified variation immediately."

\* the cue queue the synthesizer made
SynthQueue == synthesis[1].timestamped_coaching_queue

\* the errors that get a cue: errors.slice(0, 3)
Cued == 1..(IF Len(errorsIn) < 3 THEN Len(errorsIn) ELSE 3)

RECURSIVE Decimal(_)
Decimal(n) == IF n < 10 THEN Digit(n) ELSE Decimal(n \div 10) \o Digit(n % 10)

\* n in decimal, padded with a zero to two digits
AtLeastTwoDigits(n) == IF n < 10 THEN "0" \o Digit(n) ELSE Decimal(n)

LeanFrame(r) ==
  /\ HasJoints(r, {"left_hip", "right_hip", "left_knee", "right_knee",
                   "left_ankle", "right_ankle", "left_shoulder", "right_shoulder"})
  /\ ~ValgusFrame(r)
  /\ LET pose == r.poses[1]
         leftHip == getKeypointByName(pose, "left_hip")
         rightHip == getKeypointByName(pose, "right_hip")
         leftKnee == getKeypointByName(pose, "left_knee")
         rightKnee == getKeypointByName(pose, "right_knee")
         leftShoulder == getKeypointByName(pose, "left_shoulder")
         rightShoulder == getKeypointByName(pose, "right_shoulder")
         OffVertical(upper, lower) ==
           /\ 3 * (lower.x - upper.x) * (lower.x - upper.x)
                > (lower.y - upper.y) * (lower.y - upper.y)
           /\ VerticalDeviationAbove30(upper, lower)
     IN  /\ leftHip.y + rightHip.y >= leftKnee.y + rightKnee.y - 40
         /\ OffVertical(leftShoulder, leftHip) \/ OffVertical(rightShoulder, rightHip)

\* the ids of the report's errors, in list order
ErrorIds == [k \in 1..Len(Errors) |-> Errors[k].id]

\* C21: a rule that fires halts only its own scan.  For a squat sequence
\* in which one frame triggers knee_valgus and a different
\* bottom-position frame without valgus leans more than 30 degrees, the
\* error list has knee_valgus and forward_lean, in that order, whichever
\* frame came first.
C21_BothSquatErrors ==
  ( /\ pc = "returned"
    /\ analyzer = "real"
    /\ "squat" \in exerciseAtEntry.nameIncludes
    /\ \E i, j \in 1..Len(results) :
         i # j /\ ValgusFrame(results[i]) /\ LeanFrame(results[j]) )
    => ErrorIds = << "knee_valgus", "forward_lean" >>

\* the overlay instructions of the report just returned
Overlays == analysis[1].visual_overlay_instructions

\* instruction s is among the report's overlays
Instructed(s) == \E i \in 1..Len(Overlays) : Overlays[i] = s

\* C26: the overlay instructions of every report, of either analyzer,
\* are the camera-angle base overlays plus the error-conditioned ones:
\* with knee_valgus in the error list they include the knee/toe-line
\* instruction, with rounded_back the spine-curvature trace.
C26_ErrorOverlays ==
  pc = "returned"
    => /\ videoInput.camera_angle \in {"sagittal_left", "sagittal_right"}
            => /\ Instructed("Draw vertical plumb line at mid-foot")
               /\ Instructed("Highlight knee tracking path")
               /\ Instructed("Show spine angle relative to vertical")
       /\ videoInput.camera_angle = "frontal"
            => /\ Instructed("Draw vertical centerline")
               /\ Instructed("Mark shoulder and hip symmetry")
       /\ (\E k \in 1..Len(Errors) : Errors[k].id = "knee_valgus")
            => Instructed("Highlight knee position relative to toe line")
       /\ (\E k \in 1..Len(Errors) : Errors[k].id = "rounded_back")
            => Instructed("Trace spine curvature, highlight excessive flexion")

\* the substitutions of the report just returned
Substitutions == analysis[1].exercise_substitutions

\* the exercise as the library defines it
Predefined(e) == CHOOSE x \in Exercises \cup {NoExercise} : x.id = e.id

\* the first two entries of a list
FirstTwo(s) == [i \in 1..(IF Len(s) < 2 THEN Len(s) ELSE 2) |-> s[i]]

\* C27: substitution generation returns at most 2 regressions and at
\* most 2 progressions; the regressions are the first two of the
\* exercise's own regressions, then a reduced-range-of-motion entry if
\* some error has cause mobility and fewer than 2 regressions exist, then
\* a lighter-load entry if some error has cause strength and fewer than 2
\* exist at that point; and no entry appears twice unless the exercise
\* predefined it twice.
C27_Substitutions ==
  (pc = "returned" /\ exerciseAtEntry # NoExercise)
    => LET own == exerciseAtEntry.regressions
           mobility == \E k \in 1..Len(Errors) : Errors[k].primary_cause = "mobility"
           strength == \E k \in 1..Len(Errors) : Errors[k].primary_cause = "strength"
           withRom == IF mobility /\ Len(own) < 2
                      THEN own \o << [name |-> "Reduced ROM variation",
                                      reason |-> "Work within pain-free range while improving mobility"] >>
                      ELSE own
           withLoad == IF strength /\ Len(withRom) < 2
                       THEN withRom \o << [name |-> "Lighter load variation",
                                           reason |-> "Build strength foundation with submaximal loads"] >>
                       ELSE withRom
           regs == Substitutions.regressions
           pre == Predefined(exerciseAtEntry).regressions
       IN  /\ Len(regs) <= 2
           /\ Len(Substitutions.progressions) <= 2
           /\ regs = FirstTwo(withLoad)
           /\ Substitutions.progressions = FirstTwo(exerciseAtEntry.progressions)
           /\ \A i, j \in 1..Len(regs) :
                (i # j /\ regs[i] = regs[j])
                  => \E a, b \in 1..Len(pre) : a # b /\ pre[a] = regs[i] /\ pre[b] = regs[i]

\* the output of the rule sets on the sequence handed in
RuleErrors == ruleOutput[1].errors
RuleErrorIds == [k \in 1..Len(RuleErrors) |-> RuleErrors[k].id]
Analyzed(name) == ruleOutput # <<>> /\ RuleSet(ruleOutput[1].exercise) = name

\* C23: a squat frame is in bottom position exactly when average hip y
\* >= average knee y - 20, the boundary included: a squat sequence whose
\* first frame is in bottom position by that definition with a knee more
\* than 50 px off its ankle yields knee_valgus for frame 0, and every
\* frame a squat error cites is in bottom position by that definition.
C23_BottomPositionInclusive ==
  Analyzed("squat")
    => /\ ( Len(framesIn) > 0 /\ ValgusFrame(framesIn[1]) )
            => RuleErrors = << KneeValgus(0, 0) >>
       /\ \A k \in 1..Len(RuleErrors) :
            RuleErrors[k].id \in {"knee_valgus", "forward_lean"}
              => LET r == framesIn[RuleErrors[k].frames[1] + 1]
                     pose == r.poses[1]
                 IN  getKeypointByName(pose, "left_hip").y
                       + getKeypointByName(pose, "right_hip").y
                     >= getKeypointByName(pose, "left_knee").y
                       + getKeypointByName(pose, "right_knee").y - 40

\* a frame with shoulders, hips and knees whose hip y lies between
\* shoulder y and knee y and whose ratio |shoulderY - hipY| /
\* |shoulderX - hipX| is below 0.5 (a zero denominator gives no ratio)
PullFrame(r) ==
  /\ HasJoints(r, {"left_shoulder", "right_shoulder", "left_hip", "right_hip",
                   "left_knee", "right_knee"})
  /\ LET pose == r.poses[1]
         shoulderY2 == getKeypointByName(pose, "left_shoulder").y
                         + getKeypointByName(pose, "right_shoulder").y
         hipY2 == getKeypointByName(pose, "left_hip").y
                    + getKeypointByName(pose, "right_hip").y
         kneeY2 == getKeypointByName(pose, "left_knee").y
                     + getKeypointByName(pose, "right_knee").y
         dx == Abs(getKeypointByName(pose, "left_shoulder").x
                     - getKeypointByName(pose, "left_hip").x)
     IN  /\ \/ shoulderY2 < hipY2 /\ hipY2 < kneeY2
            \/ kneeY2 < hipY2 /\ hipY2 < shoulderY2
         /\ dx # 0
         /\ Abs(shoulderY2 - hipY2) < dx

\* a frame whose left shoulder is at the x of its left hip
StackedFrame(r) ==
  /\ HasJoints(r, {"left_shoulder", "left_hip"})
  /\ getKeypointByName(r.poses[1], "left_shoulder").x
       = getKeypointByName(r.poses[1], "left_hip").x

\* C24: a deadlift sequence yields rounded_back (major, cause setup)
\* exactly when some frame with shoulders, hips and knees has hip y
\* between shoulder y and knee y and a spine ratio below 0.5; the error
\* never cites a frame with shoulderX = hipX, and the analysis of a
\* sequence holding such a frame ends with an error list.
C24_RoundedBack ==
  Analyzed("deadlift") /\ Len(framesIn) > 0
    => /\ (\E i \in 1..Len(framesIn) : PullFrame(framesIn[i]))
            <=> (\E k \in 1..Len(RuleErrors) : RuleErrors[k].id = "rounded_back")
       /\ \A k \in 1..Len(RuleErrors) :
            /\ RuleErrors[k].id = "rounded_back"
            /\ RuleErrors[k].severity = "major"
            /\ RuleErrors[k].primary_cause = "setup"
            /\ ~StackedFrame(framesIn[RuleErrors[k].frames[1] + 1])

\* frame r satisfies the predicate of the rule that emits id: for
\* knee_valgus and rounded_back the predicates of the rule catalog, for
\* the other rules the frame's own outcome in its rule set
Satisfies(id, r) ==
  CASE id = "knee_valgus" -> ValgusFrame(r)
    [] id = "rounded_back" -> PullFrame(r)
    [] id = "forward_lean" ->
         \E k \in 1..Len(SquatFrame(r)) : SquatFrame(r)[k].id = id
    [] id = "scapula_protraction" ->
         \E k \in 1..Len(BenchFrame(r)) : BenchFrame(r)[k].id = id
    [] id = "sagging_hips" ->
         \E k \in 1..Len(PushUpFrame(r)) : PushUpFrame(r)[k].id = id
    [] id = "knee_over_toe" ->
         \E k \in 1..Len(LungeFrame(r)) : LungeFrame(r)[k].id = id
    [] OTHER -> FALSE

\* C22: first-qualifying-frame policy.  Every rule-based error of the
\* list has frames [f, f] with f the frame number of the earliest frame
\* of the sequence that satisfies its rule's predicate.
C22_FirstQualifyingFrame ==
  ruleOutput # <<>>
    => \A k \in 1..Len(RuleErrors) :
         RuleErrors[k].id # "no_pose_detected"
           => \E i \in 1..Len(framesIn) :
                /\ Satisfies(RuleErrors[k].id, framesIn[i])
                /\ \A j \in 1..(i - 1) : ~Satisfies(RuleErrors[k].id, framesIn[j])
                /\ RuleErrors[k].frames = << framesIn[i].frameNumber, framesIn[i].frameNumber >>

\* the flags of the output of the quality assessor
QualityFlags == ruleOutput[1].video_quality_flags
Flagged(f) == \E k \in 1..Len(QualityFlags) : QualityFlags[k] = f

\* the frames that have at least one pose, and those whose primary pose
\* has a score
WithPose == { i \in 1..Len(framesIn) : framesIn[i].poses # <<>> }
Scored == { i \in WithPose : framesIn[i].poses[1].score # NoScore }

\* the sum of the primary pose scores of the frames in S, in hundredths
RECURSIVE ScoreTotal(_)
ScoreTotal(S) ==
  IF S = {} THEN 0
  ELSE LET i == CHOOSE x \in S : TRUE
       IN  framesIn[i].poses[1].score + ScoreTotal(S \ {i})

\* C25: the quality flags are exactly low_detection_rate iff (frames
\* with a pose) / (frames) < 0.7 and low_confidence iff the mean primary
\* pose score over all frames is below 0.5, a frame without a pose or
\* without a score counting 0; no other flag is raised and none twice.
C25_QualityFlags ==
  ( ruleOutput # <<>> /\ Len(framesIn) > 0 )
    => /\ Flagged("low_detection_rate")
            <=> 10 * Cardinality(WithPose) < 7 * Len(framesIn)
       /\ Flagged("low_confidence")
            <=> ScoreTotal(Scored) < 50 * Len(framesIn)
       /\ \A k \in 1..Len(QualityFlags) :
            QualityFlags[k] \in {"low_detection_rate", "low_confidence"}
       /\ \A k, l \in 1..Len(QualityFlags) : QualityFlags[k] = QualityFlags[l] => k = l

\* three frames, one without a pose, one whose pose has no score and one
\* whose pose scores at least 0.5: the two frames that count 0 bring the
\* mean below 0.5, and the detection rate 2/3 is below 0.7
C25_Witness ==
  /\ ruleOutput # <<>>
  /\ Len(framesIn) = 3
  /\ Cardinality(WithPose) = 2
  /\ Cardinality(Scored) = 1
  /\ 2 * ScoreTotal(Scored) >= 100 * Cardinality(Scored)
  /\ QualityFlags = << "low_detection_rate", "low_confidence" >>

\* C29: no logged session is lost.  Every session that has been passed
\* to handleSessionSaved is in App's sessions list, in every state from
\* then on.
C29_NoSessionLost ==
  \A k \in 1..Len(delivered) :
    \E j \in 1..Len(sessions) : sessions[j].id = delivered[k]

\* C28: the analysis displayed belongs to the file loaded.  Whenever an
\* analysis is displayed, every frame it was computed from was drawn
\* from the file that is loaded now.
C28_ShownAnalysisOfLoadedVideo ==
  shown # <<>>
    => \A k \in 1..Len(shown[1].drawn) : shown[1].drawn[k] = videoFile

\* a run of handleAnalyze ends in this step
RunEnds == run.pc # "idle" /\ run'.pc = "idle"

====
